---------------------------- MODULE Spec2Model ----------------------------
(***************************************************************************)
(* A model of parts of the PurC HVML interpreter:                          *)
(*   - the renderer client's page load (interpreter/rdr.c),                *)
(*   - the iterate element (interpreter/iterate.c),                        *)
(*   - the array variant and its listeners (variant/variant-array.c),      *)
(*   - the $TIMERS facility (interpreter/timer.cpp),                       *)
(*   - the renderer client's session, page and DOM requests               *)
(*     (pcrdr/pcrdr.c, interpreter/rdr.c),                                 *)
(*   - the source attributes of the update element (interpreter/update.c), *)
(*   - the operations of update on its target (interpreter/update.c),      *)
(*   - the template elements archetype, error and except                   *)
(*     (interpreter/elements/archetype.c, elements/error.c, except.c),     *)
(*   - the operations of a document kind (document/document.c),            *)
(*   - the handshake of an HBDBus stream (dvobjs/stream-hbdbus.c),         *)
(*   - the pending data of a message stream (dvobjs/stream-message.c).     *)
(* Each component has its own variables, initial condition, actions and    *)
(* specification; the variables of the other components stay at rest.      *)
(***************************************************************************)
EXTENDS Integers, Sequences, FiniteSets, TLC

VARIABLES
    \* ---- renderer client (rdr.c) ----
    conn_type,      \* pcrdr_conn_type(inst->conn_to_rdr)
    doc_content,    \* the serialized document, run-length encoded
    rdr_pc,         \* where pcintr_rdr_page_control_load stands
    len_wrotten,    \* rdr_page_control_load_large_page: len_wrotten
    requests,       \* the requests sent so far, in send order
    response,       \* the last response_msg: "none" (NULL), "ok", "refused"
    \* ---- iterate element (iterate.c) ----
    element,        \* the <iterate> element: its attributes and child nodes
    ndebug,         \* the build compiles PC_ASSERT out
    frame,          \* struct pcintr_stack_frame: idx, result_var
    ctxt,           \* struct ctxt_for_iterate
    iter_pc,        \* the operation the driver invokes next
    calls,          \* how often rerun ran and on_popping returned true/false
    body_runs,      \* <<frame.idx, frame.result_var>> at each pass of the body
    \* ---- array variant (variant-array.c) ----
    array,          \* al->array[0 .. al->length - 1]
    listeners,      \* array->listeners, in registration order
    held,           \* per value: the references the array has taken on it
    invoked,        \* the handlers the last mutation invoked, in call order
    array_op,       \* the last mutation and what it returned
    \* ---- $TIMERS (timer.cpp) ----
    timers_var,     \* the $TIMERS set: per id the member {interval, active}
    timers_map,     \* timers->timers_map: id -> pcintr_timer_t
    timer_objs,     \* the PurcTimer objects alive, by address
    timers_op,      \* the last operation on $TIMERS or timer expiry
    timers_listeners, \* timers->grow_listener, shrink_listener, change_listener
    msg_queue,      \* the messages dispatched to the coroutine, not yet handled
    \* ---- renderer client: session, page and DOM requests (rdr.c, pcrdr.c) ----
    inst,           \* struct pcinst: conn_to_rdr, rdr_caps
    co,             \* the coroutine: target_page_type, target_*_handle
    traffic,        \* the last request sent; requests sent, responses received
    waiting,        \* the call blocked in pcrdr_send_request_and_wait_response
    last_error,     \* purc_get_last_error()
    client_op,      \* the last renderer-client operation that returned
    \* ---- update element (update.c) ----
    upd_element,    \* the <update> element: its attributes, its children
    upd_build,      \* what PC_ASSERT does in this build
    upd_ctxt,       \* struct ctxt_for_update
    upd_pc,         \* where the element is in its life
    upd_error,      \* purc_get_last_error()
    upd_src,        \* the source `process` was called with
    \* ---- update element: the operations on its target (update.c) ----
    upt_target,     \* the value of `on`: an object, array, set or element
    upt_build,      \* whether PC_ASSERT is active in this build
    upt_sig,        \* the signal that has ended the process, if any
    upt_op,         \* the last update applied, and its outcome
    \* ---- template elements (archetype.c, error.c, except.c) ----
    tpl_element,    \* the archetype, error or except element that is run
    tpl_build,      \* how PC_ASSERT is compiled in this build
    tpl_ctxt,       \* the context of the frame: NULL or Ref(ctxt)
    tpl_frame,      \* the frame: next step, content variable, templates
    tpl_scope,      \* the variables bound in the scopes
    tpl_error,      \* the last error
    tpl_pc,         \* where the element is
    tpl_abort,      \* the function a failed PC_ASSERT has aborted in
    \* ---- documents (document/document.c) ----
    pdoc_ops,       \* the optional operations the document kind implements
    pdoc_doc,       \* the document: NULL or Ref(type)
    pdoc_error,     \* the last error
    pdoc_call,      \* the calls made, and the outcome of the last one
    \* ---- HBDBus stream (dvobjs/stream-hbdbus.c) ----
    hbs_ext,        \* stream->ext1.data: state and errsym
    hbs_alive,      \* the process has not been aborted
    hbs_sent,       \* the auth packets sent to the server
    hbs_hist,       \* the steps of the handshake that have succeeded
    hbs_op,         \* the last message and what on_message made of it
    \* ---- message stream (dvobjs/stream-message.c) ----
    us_ext,         \* stream->ext0.data: status, sz_pending, pending
    us_wire,        \* the bytes written to the socket, in order
    us_bufs,        \* the lengths of the buffers passed to us_write
    us_alive,       \* the stream has not been released
    us_op           \* the last call, what it returned and the data before

rdrVars == <<conn_type, doc_content, rdr_pc, len_wrotten, requests, response>>
iterVars == <<element, ndebug, frame, ctxt, iter_pc, calls, body_runs>>
arrayVars == <<array, listeners, held, invoked, array_op>>
timersVars == <<timers_var, timers_map, timer_objs, timers_op,
                timers_listeners, msg_queue>>

clientVars == <<inst, co, traffic, waiting, last_error, client_op>>
updVars == <<upd_element, upd_build, upd_ctxt, upd_pc, upd_error, upd_src>>

uptVars == <<upt_target, upt_build, upt_sig, upt_op>>

tplVars == <<tpl_element, tpl_build, tpl_ctxt, tpl_frame, tpl_scope,
            tpl_error, tpl_pc, tpl_abort>>

pdocVars == <<pdoc_ops, pdoc_doc, pdoc_error, pdoc_call>>

hbsVars == <<hbs_ext, hbs_alive, hbs_sent, hbs_hist, hbs_op>>

usVars == <<us_ext, us_wire, us_bufs, us_alive, us_op>>

vars == <<rdrVars, iterVars, arrayVars, timersVars, clientVars, updVars,
    uptVars, tplVars, pdocVars, hbsVars, usVars>>

\* what an action of one component leaves alone: the other components
NotRdr == <<iterVars, arrayVars, timersVars, clientVars, updVars, uptVars,
    tplVars, pdocVars, hbsVars, usVars>>
NotIter == <<rdrVars, arrayVars, timersVars, clientVars, updVars, uptVars,
    tplVars, pdocVars, hbsVars, usVars>>
NotArray == <<rdrVars, iterVars, timersVars, clientVars, updVars, uptVars,
    tplVars, pdocVars, hbsVars, usVars>>
NotTimers == <<rdrVars, iterVars, arrayVars, clientVars, updVars, uptVars,
    tplVars, pdocVars, hbsVars, usVars>>
NotClient == <<rdrVars, iterVars, arrayVars, timersVars, updVars, uptVars,
    tplVars, pdocVars, hbsVars, usVars>>
NotUpt == <<rdrVars, iterVars, arrayVars, timersVars, clientVars, updVars,
    tplVars, pdocVars, hbsVars, usVars>>
NotPdoc == <<rdrVars, iterVars, arrayVars, timersVars, clientVars, updVars,
    uptVars, tplVars, hbsVars, usVars>>
NotTpl == <<rdrVars, iterVars, arrayVars, timersVars, clientVars, updVars,
    uptVars, pdocVars, hbsVars, usVars>>
NotUpd == <<rdrVars, iterVars, arrayVars, timersVars, clientVars, uptVars,
    tplVars, pdocVars, hbsVars, usVars>>
NotHbs == <<rdrVars, iterVars, arrayVars, timersVars, clientVars, updVars,
    uptVars, tplVars, pdocVars, usVars>>
NotUs == <<rdrVars, iterVars, arrayVars, timersVars, clientVars, updVars,
    uptVars, tplVars, pdocVars, hbsVars>>

Min(a, b) == IF a < b THEN a ELSE b

\* A pointer or variant that may be null is a sequence: NULL (a null pointer,
\* PURC_VARIANT_INVALID) is the empty one, <<x>> refers to x.
NULL == <<>>
Ref(x) == <<x>>
Val(r) == r[1]

(***************************************************************************)
(*                     RENDERER CLIENT: PAGE LOAD                          *)
(***************************************************************************)

\* #define DEF_LEN_ONE_WRITE 1024 * 10
DEF_LEN_ONE_WRITE == 10240

\* A serialized document is a sequence of runs <<w, n>>: n code points of
\* w bytes each (UTF-8: w in 1..4).  The byte at an offset is determined by
\* the document, so a payload is a slice [from, from + len) of it.
Utf8Widths == 1..4
RunCounts  == {1, 2, 3413, 5120, 10239, 10240}
MaxRuns    == 2

RECURSIVE SeqsUpTo(_, _)
SeqsUpTo(S, n) ==
    IF n = 0 THEN {<<>>}
    ELSE LET shorter == SeqsUpTo(S, n - 1)
         IN  shorter \cup {Append(s, x) : s \in {t \in shorter : Len(t) = n - 1}, x \in S}

Documents == SeqsUpTo(Utf8Widths \X RunCounts, MaxRuns)

RECURSIVE DocLenFrom(_, _)
DocLenFrom(d, i) ==
    IF i > Len(d) THEN 0 ELSE d[i][1] * d[i][2] + DocLenFrom(d, i + 1)

\* sz_content / len_content: the number of bytes of the serialized document
DocLen(d) == DocLenFrom(d, 1)

\* offset o of document d lies between two code points (or at either end)
RECURSIVE IsBoundaryFrom(_, _, _, _)
IsBoundaryFrom(d, i, base, o) ==
    IF i > Len(d) THEN o = base
    ELSE LET w == d[i][1]
             b == base + w * d[i][2]
         IN  IF o < b THEN o >= base /\ (o - base) % w = 0
             ELSE IsBoundaryFrom(d, i + 1, b, o)

IsBoundary(d, o) == IsBoundaryFrom(d, 1, 0, o)

\* pcutils_string_check_utf8_len(start, max_len, NULL, &end): scans whole
\* code points from `start` while they fit in max_len bytes and the string
\* lasts; `end` is where the scan stops.  i is the run under the pointer p,
\* base the offset at which that run begins, limit = start + max_len.
RECURSIVE ScanRuns(_, _, _, _, _)
ScanRuns(d, i, base, p, limit) ==
    IF i > Len(d) THEN p
    ELSE LET w == d[i][1]
             b == base + w * d[i][2]
         IN  IF p >= b THEN ScanRuns(d, i + 1, b, p, limit)
             ELSE IF (p - base) % w # 0 THEN p   \* a continuation byte: invalid
             ELSE LET k == Min((b - p) \div w, (limit - p) \div w)
                      q == p + k * w
                  IN  IF q < b THEN q ELSE ScanRuns(d, i + 1, b, q, limit)

pcutils_string_check_utf8_len(d, start, max_len) ==
    ScanRuns(d, 1, 0, start, start + max_len)

\* len_to_write = end - start, after
\* pcutils_string_check_utf8_len(start, DEF_LEN_ONE_WRITE, NULL, &end)
LenToWrite_cut(d, start) == Min(DEF_LEN_ONE_WRITE, DocLen(d) - start)
LenToWrite(d, start) ==
    pcutils_string_check_utf8_len(d, start, DEF_LEN_ONE_WRITE) - start

\* len_wrotten += len_to_write
Advance_fixed(wrotten, len_to_write) == wrotten + DEF_LEN_ONE_WRITE
Advance(wrotten, len_to_write) == wrotten + len_to_write

\* if (len_wrotten + DEF_LEN_ONE_WRITE > len_content) -> writeEnd
IsLastChunk(wrotten, len_content) ==
    wrotten + DEF_LEN_ONE_WRITE > len_content

\* pcintr_rdr_send_request_and_wait_response: msg->data = data (the static
\* string that begins at offset `from` of the document); msg->textLen is
\* set only if data_len > 0.
Request(operation, from, data_len) ==
    [operation |-> operation, from |-> from,
     textLen |-> IF data_len > 0 THEN data_len ELSE 0]

\* The text a request carries on the wire: textLen bytes of the data when
\* textLen is set, the whole string otherwise.
PayloadLen(d, req) ==
    IF req.textLen > 0 THEN req.textLen ELSE DocLen(d) - req.from

Responses == {"none", "ok", "refused"}

\* if (sz_content > DEF_LEN_ONE_WRITE): the text goes out through
\* rdr_page_control_load_large_page
IsLargePage_incl(sz_content) == sz_content >= DEF_LEN_ONE_WRITE
IsLargePage(sz_content) == sz_content > DEF_LEN_ONE_WRITE

RdrStart ==
    /\ conn_type \in {"CT_MOVE_BUFFER", "CT_SOCKET"}
    /\ doc_content \in Documents
    /\ rdr_pc = "load"
    /\ len_wrotten = 0
    /\ requests = <<>>
    /\ response = "none"

\* pcintr_rdr_page_control_load up to the first response: a single `load`
\* (the document entity on a move buffer, the whole text when it fits one
\* write), or the writeBegin of rdr_page_control_load_large_page.
SendLoad(r) ==
    /\ rdr_pc = "load"
    /\ \/ conn_type = "CT_MOVE_BUFFER"
       \/ ~IsLargePage(DocLen(doc_content))
    /\ requests' = Append(requests, Request("load", 0, 0))
    /\ response' = r
    /\ rdr_pc' = IF r = "ok" THEN "done" ELSE "failed"
    /\ UNCHANGED <<conn_type, doc_content, len_wrotten>>
    /\ UNCHANGED NotRdr

WriteBegin(r) ==
    /\ rdr_pc = "load"
    /\ conn_type # "CT_MOVE_BUFFER"
    /\ IsLargePage(DocLen(doc_content))
    /\ LET len_to_write == LenToWrite(doc_content, 0)
       IN  IF len_to_write > 0
           THEN /\ requests' = Append(requests,
                                      Request("writeBegin", 0, len_to_write))
                /\ len_wrotten' = len_to_write
                /\ response' = r
                /\ rdr_pc' = IF r # "ok" THEN "failed"
                             ELSE IF len_to_write = DocLen(doc_content)
                                  THEN "done" ELSE "writting"
           ELSE \* "No valid character in document content"
                /\ rdr_pc' = "failed"
                /\ UNCHANGED <<requests, len_wrotten, response>>
    /\ UNCHANGED <<conn_type, doc_content>>
    /\ UNCHANGED NotRdr

\* the label `writting:` of rdr_page_control_load_large_page, one pass
WriteEnd(r) ==
    /\ rdr_pc = "writting"
    /\ IsLastChunk(len_wrotten, DocLen(doc_content))
    /\ requests' = Append(requests, Request("writeEnd", len_wrotten, 0))
    /\ response' = r
    /\ rdr_pc' = IF r = "ok" THEN "done" ELSE "failed"
    /\ UNCHANGED <<conn_type, doc_content, len_wrotten>>
    /\ UNCHANGED NotRdr

WriteMore(r) ==
    /\ rdr_pc = "writting"
    /\ ~IsLastChunk(len_wrotten, DocLen(doc_content))
    /\ LET len_to_write == LenToWrite(doc_content, len_wrotten)
       IN  IF len_to_write > 0
           THEN /\ requests' = Append(requests,
                              Request("writeMore", len_wrotten, len_to_write))
                /\ len_wrotten' = Advance(len_wrotten, len_to_write)
                /\ response' = r
                /\ rdr_pc' = IF r # "ok" THEN "failed"
                             ELSE IF len_wrotten' = DocLen(doc_content)
                                  THEN "done" ELSE "writting"
           ELSE \* "no valid character for rdr"
                /\ rdr_pc' = "failed"
                /\ UNCHANGED <<requests, len_wrotten, response>>
    /\ UNCHANGED <<conn_type, doc_content>>
    /\ UNCHANGED NotRdr

RdrNext ==
    \E r \in Responses :
        SendLoad(r) \/ WriteBegin(r) \/ WriteMore(r) \/ WriteEnd(r)

\* ---- properties of the page load ----

\* the load was streamed: it began with a writeBegin
Streamed == requests # <<>> /\ requests[1].operation = "writeBegin"

\* the byte offset just after the payload of the i-th request
PayloadEnd(i) == requests[i].from + PayloadLen(doc_content, requests[i])

\* The payloads, concatenated in send order, are the document: the first
\* begins at byte 0, each next one begins where the one before it ended, and
\* the last ends with the document.
PayloadsAreDocument ==
    /\ requests[1].from = 0
    /\ \A i \in 1..(Len(requests) - 1) : requests[i + 1].from = PayloadEnd(i)
    /\ PayloadEnd(Len(requests)) = DocLen(doc_content)

\* C1: for every completed streamed page load, the payloads of writeBegin,
\* of the writeMore requests and of writeEnd, concatenated in send order,
\* equal the fully serialized document.
C1_ConcatenationIsDocument ==
    (Streamed /\ rdr_pc = "done") => PayloadsAreDocument

\* a completed stream of at least three requests, one of which was cut short
\* of DEF_LEN_ONE_WRITE to keep a code point whole
C1_Witness ==
    /\ Streamed /\ rdr_pc = "done" /\ Len(requests) >= 3
    /\ requests[Len(requests)].operation = "writeEnd"
    /\ \E i \in 1..(Len(requests) - 1) :
          PayloadLen(doc_content, requests[i]) < DEF_LEN_ONE_WRITE

\* C2 (as claimed): every streamed page load that does not fail is one
\* writeBegin, then writeMore requests only, then one writeEnd as the last
\* request.
C2_EndsWithWriteEnd ==
    (Streamed /\ rdr_pc = "done") =>
        /\ Len(requests) >= 2
        /\ requests[Len(requests)].operation = "writeEnd"
        /\ \A i \in 2..(Len(requests) - 1) : requests[i].operation = "writeMore"

\* C3: every chunk of a streamed load carries at most DEF_LEN_ONE_WRITE bytes
\* and begins and ends between two code points of the document.
C3_ChunksAligned ==
    Streamed =>
        \A i \in 1..Len(requests) :
            /\ PayloadLen(doc_content, requests[i]) <= DEF_LEN_ONE_WRITE
            /\ IsBoundary(doc_content, requests[i].from)
            /\ IsBoundary(doc_content, PayloadEnd(i))

\* a code point straddles the offset at which a full chunk would end: a
\* writeBegin or writeMore chunk is shorter than DEF_LEN_ONE_WRITE and more
\* of the document follows it
C3_Witness ==
    /\ Streamed /\ rdr_pc = "done"
    /\ \E i \in 1..Len(requests) :
          /\ requests[i].operation \in {"writeBegin", "writeMore"}
          /\ PayloadLen(doc_content, requests[i]) < DEF_LEN_ONE_WRITE
          /\ PayloadEnd(i) < DocLen(doc_content)
          /\ ~IsBoundary(doc_content, requests[i].from + DEF_LEN_ONE_WRITE)

\* C15: on a transport that is not a move buffer, a document of at most
\* 10240 bytes is sent as exactly one `load` request that carries the whole
\* document, with no writeBegin, writeMore or writeEnd, and a larger
\* document is never sent with `load`.
C15_SmallPageOneLoad ==
    (conn_type # "CT_MOVE_BUFFER" /\ rdr_pc # "load") =>
        IF DocLen(doc_content) <= 10240
        THEN /\ Len(requests) = 1
             /\ requests[1].operation = "load"
             /\ requests[1].from = 0
             /\ PayloadLen(doc_content, requests[1]) = DocLen(doc_content)
        ELSE \A i \in 1..Len(requests) : requests[i].operation # "load"

\* a document of exactly 10240 bytes has been loaded over a socket
C15_Witness ==
    /\ conn_type = "CT_SOCKET" /\ rdr_pc = "done"
    /\ DocLen(doc_content) = 10240
    /\ Len(requests) = 1 /\ requests[1].operation = "load"

(***************************************************************************)
(*                          ITERATE ELEMENT                                *)
(***************************************************************************)

MaxOn == 3                  \* longest `on` array
Members == {10, 20, 30}
OnArrays == SeqsUpTo(Members, MaxOn)

\* child nodes of the element, by pcvdom node type
ChildLists == { <<>>, <<"ELEMENT">>, <<"COMMENT", "ELEMENT", "CONTENT">>,
                <<"ELEMENT", "ELEMENT">> }

\* The attributes of an <iterate> element.  `by` is absent (NULL) or the
\* rule "RANGE: FROM f" (given as f); `onlyif` is absent or a condition on
\* the step, "the step index is below t" (given as t).
Elements ==
    [on : {Ref(a) : a \in OnArrays} \cup {NULL},
     by : {Ref(f) : f \in 0..1} \cup {NULL},
     onlyif : {Ref(t) : t \in 0..MaxOn} \cup {NULL},
     children : ChildLists]

\* the value of the onlyif condition when it is evaluated at step idx
OnlyifAt(e, idx) == idx < Val(e.onlyif)

\* const char *rule = "RANGE: FROM 0"; replaced by the `by` attribute
RuleFrom(c) == IF c.rule_attr = NULL THEN 0 ELSE Val(c.rule_attr)

\* The RANGE executor over an array: an iterator is the index (from 0) of
\* the member it stands on, NULL past the end.
it_begin(on, from) == IF from < Len(on) THEN Ref(from) ELSE NULL
it_next(on, it) == IF Val(it) + 1 < Len(on) THEN Ref(Val(it) + 1) ELSE NULL
it_value(on, it) == Ref(on[Val(it) + 1])

\* count(iterator): the number of steps the executor yields
CountIterator(e) ==
    LET from == IF e.by = NULL THEN 0 ELSE Val(e.by)
    IN  IF e.on = NULL \/ from >= Len(Val(e.on)) THEN 0
        ELSE Len(Val(e.on)) - from

IterStart ==
    /\ element \in Elements
    /\ ndebug \in BOOLEAN
    /\ frame = [idx |-> 0, result_var |-> NULL]
    /\ ctxt = [curr |-> NULL, on |-> NULL, onlyif |-> NULL, rule_attr |-> NULL,
               exec_inst |-> NULL, it |-> NULL]
    /\ iter_pc = "after_pushed"
    /\ calls = [rerun |-> 0, popping_true |-> 0, popping_false |-> 0]
    /\ body_runs = <<>>

\* pcintr_vdom_walk_attrs(frame, element, NULL, attr_found): process_attr_on,
\* process_attr_by, process_attr_onlyif store the evaluated attributes
WalkAttrs(c, e) ==
    [c EXCEPT !.on = e.on,
              !.rule_attr = e.by,
              !.onlyif = IF e.onlyif = NULL THEN NULL ELSE Ref(OnlyifAt(e, 0))]

\* post_process: [ok, ctxt, result_var]
post_process(c, f) ==
    IF c.on = NULL THEN [ok |-> FALSE, ctxt |-> c, result_var |-> f.result_var]
    ELSE LET it == it_begin(Val(c.on), RuleFrom(c))
             c1 == [c EXCEPT !.exec_inst = Ref("exec_inst")]
         IN  IF it = NULL
             THEN [ok |-> FALSE, ctxt |-> c1, result_var |-> f.result_var]
             ELSE [ok |-> TRUE, ctxt |-> [c1 EXCEPT !.it = it],
                   result_var |-> it_value(Val(c.on), it)]

\* after_pushed
IterAfterPushed ==
    /\ iter_pc = "after_pushed"
    /\ LET c1 == WalkAttrs(ctxt, element)
           pp == post_process(c1, frame)
       IN  IF c1.onlyif # NULL /\ ~ndebug
           THEN \* PC_ASSERT(0)
                /\ ctxt' = c1
                /\ iter_pc' = "aborted"
                /\ frame' = frame
           ELSE /\ ctxt' = pp.ctxt
                /\ frame' = [frame EXCEPT !.result_var = pp.result_var]
                /\ iter_pc' = IF pp.ok THEN "select_child" ELSE "failed"
    /\ UNCHANGED <<element, ndebug, calls, body_runs>>
    /\ UNCHANGED NotIter

\* select_child: the index of the next ELEMENT child after curr, NULL if none
\* (content and comment children are passed over by `goto again`)
NextElementChild(children, curr) ==
    LET from == IF curr = NULL THEN 1 ELSE Val(curr) + 1
        found == {i \in from..Len(children) : children[i] = "ELEMENT"}
    IN  IF found = {} THEN NULL
        ELSE Ref(CHOOSE i \in found : \A j \in found : i <= j)

IterSelectChild ==
    /\ iter_pc = "select_child"
    /\ LET child == NextElementChild(element.children, ctxt.curr)
       IN  /\ ctxt' = [ctxt EXCEPT !.curr = child]
           /\ iter_pc' = IF child = NULL THEN "on_popping" ELSE "child"
    /\ body_runs' = IF ctxt.curr = NULL
                    THEN Append(body_runs, <<frame.idx, frame.result_var>>)
                    ELSE body_runs
    /\ UNCHANGED <<element, ndebug, frame, calls>>
    /\ UNCHANGED NotIter

\* the driver runs the selected child element and comes back to select_child
IterChildFinished ==
    /\ iter_pc = "child"
    /\ iter_pc' = "select_child"
    /\ UNCHANGED <<element, ndebug, frame, ctxt, calls, body_runs>>
    /\ UNCHANGED NotIter

\* on_popping: [ret, it]: what it returns and what it leaves in ctxt->it
on_popping_no_inst(c) ==
    IF c.exec_inst # NULL THEN [ret |-> TRUE, it |-> c.it]
    ELSE [ret |-> FALSE, it |-> c.it]
on_popping(c) ==
    IF c.exec_inst = NULL THEN [ret |-> TRUE, it |-> c.it]
    ELSE IF c.it = NULL THEN [ret |-> TRUE, it |-> c.it]
    ELSE LET it == it_next(Val(c.on), c.it)
         IN  [ret |-> (it = NULL), it |-> it]

IterOnPopping ==
    /\ iter_pc = "on_popping"
    /\ LET r == on_popping(ctxt)
       IN  /\ ctxt' = [ctxt EXCEPT !.it = r.it]
           /\ iter_pc' = IF r.ret THEN "popped" ELSE "rerun"
           /\ calls' = IF r.ret
                       THEN [calls EXCEPT !.popping_true = @ + 1]
                       ELSE [calls EXCEPT !.popping_false = @ + 1]
    /\ UNCHANGED <<element, ndebug, frame, body_runs>>
    /\ UNCHANGED NotIter

\* rerun: the frame it leaves
rerun_stale(f, c) == [f EXCEPT !.idx = @ + 1]
rerun(f, c) ==
    [f EXCEPT !.idx = @ + 1, !.result_var = it_value(Val(c.on), c.it)]

IterRerun ==
    /\ iter_pc = "rerun"
    /\ frame' = rerun(frame, ctxt)
    /\ calls' = [calls EXCEPT !.rerun = @ + 1]
    /\ iter_pc' = "select_child"
    /\ UNCHANGED <<element, ndebug, ctxt, body_runs>>
    /\ UNCHANGED NotIter

IterNext ==
    \/ IterAfterPushed
    \/ IterSelectChild
    \/ IterChildFinished
    \/ IterOnPopping
    \/ IterRerun

\* ---- properties of the iterate element ----

\* the frame of the element has been popped: on_popping returned true
Popped == iter_pc = "popped"

IsRange102030 ==
    /\ element.on = Ref(<<10, 20, 30>>)
    /\ element.by = Ref(0)
    /\ element.onlyif = NULL

ExpectedRuns == << <<0, Ref(10)>>, <<1, Ref(20)>>, <<2, Ref(30)>> >>

\* C5: iterating over [10,20,30] with RANGE: FROM 0 runs the body exactly 3
\* times, the k-th run (k = 0, 1, 2) with frame.idx = k and result_var the
\* k-th member.
C5_RangeRuns ==
    IsRange102030 =>
        /\ Len(body_runs) <= 3
        /\ \A k \in 1..Len(body_runs) : body_runs[k] = ExpectedRuns[k]
        /\ iter_pc \in {"child", "on_popping"} =>
               <<frame.idx, frame.result_var>> = body_runs[Len(body_runs)]
        /\ Popped => body_runs = ExpectedRuns

\* the three runs have been made over an element with child elements
C5_Witness ==
    /\ IsRange102030 /\ Popped /\ Len(body_runs) = 3
    /\ frame.idx = 2 /\ frame.result_var = Ref(30)
    /\ element.children = <<"COMMENT", "ELEMENT", "CONTENT">>

\* C6 (as claimed): with an onlyif attribute the condition is evaluated for
\* every step and the iteration ends at the first step for which it is
\* false: the element is run to its end, and the body runs only for steps at
\* which the condition holds.
C6_OnlyifEndsIteration ==
    element.onlyif # NULL =>
        /\ iter_pc # "aborted"
        /\ \A k \in 1..Len(body_runs) : OnlyifAt(element, body_runs[k][1])

(***************************************************************************)
(*                     ARRAY VARIANT AND ITS LISTENERS                     *)
(***************************************************************************)

MaxArray == 3               \* longest array
MaxListeners == 2           \* most listeners registered on the array
MaxHeld == 4                \* most references the array takes on one value

UNDEFINED == "undefined"    \* purc_variant_make_undefined()
Values == {"a", "b"}        \* the variants a caller stores
AllValues == Values \cup {UNDEFINED}

\* the atoms a listener is registered under
MsgTypes == {"grown", "shrunk", "change"}

\* list_for_each(p, &array->listeners): the handlers of the listeners whose
\* name is msg_type are called in list order, each with args
RECURSIVE InvokeFrom(_, _, _, _)
InvokeFrom(ls, i, msg_type, args) ==
    IF i > Len(ls) THEN <<>>
    ELSE (IF ls[i].name = msg_type
          THEN <<[listener |-> i, msg_type |-> msg_type, args |-> args]>>
          ELSE <<>>) \o InvokeFrom(ls, i + 1, msg_type, args)

\* grown, shrunk, change: the handler calls each one makes.  Each returns
\* at once if (!list_empty(&array->listeners)).
grown(ls, value) ==
    IF ls # <<>> THEN <<>> ELSE InvokeFrom(ls, 1, "grown", <<value>>)

shrunk(ls, value) ==
    IF ls # <<>> THEN <<>> ELSE InvokeFrom(ls, 1, "shrunk", <<value>>)

change(ls, o, n) ==
    IF ls # <<>> THEN <<>> ELSE InvokeFrom(ls, 1, "change", <<n, o>>)

\* purc_variant_ref / purc_variant_unref on a member
ref(h, v) == [h EXCEPT ![v] = @ + 1]
unref(h, v) == [h EXCEPT ![v] = @ - 1]

RECURSIVE Undefineds(_)
Undefineds(n) == IF n <= 0 THEN <<>> ELSE <<UNDEFINED>> \o Undefineds(n - 1)

\* an insert_before that puts the value in front when idx is out of range
purc_variant_array_insert_before_front(a, ls, h, idx, value) ==
    LET nr == Len(a)
        at == IF idx >= nr THEN 0 ELSE idx
    IN  [array   |-> SubSeq(a, 1, at) \o <<value>> \o SubSeq(a, at + 1, nr),
         invoked |-> shrunk(ls, value),
         held    |-> ref(h, value),
         ret     |-> TRUE]

\* purc_variant_array_insert_before: [array, invoked, held, ret]
purc_variant_array_insert_before(a, ls, h, idx, value) ==
    LET nr == Len(a)
        at == IF idx >= nr THEN nr ELSE idx
    IN  [array   |-> SubSeq(a, 1, at) \o <<value>> \o SubSeq(a, at + 1, nr),
         invoked |-> shrunk(ls, value),
         held    |-> ref(h, value),
         ret     |-> TRUE]

\* purc_variant_array_append
purc_variant_array_append(a, ls, h, value) ==
    purc_variant_array_insert_before(a, ls, h, Len(a), value)

\* purc_variant_array_prepend
purc_variant_array_prepend(a, ls, h, value) ==
    purc_variant_array_insert_before(a, ls, h, 0, value)

\* purc_variant_array_insert_after
purc_variant_array_insert_after(a, ls, h, idx, value) ==
    purc_variant_array_insert_before(a, ls, h, idx + 1, value)

\* purc_variant_array_set
purc_variant_array_set(a, ls, h, idx, value) ==
    LET nr == Len(a)
    IN  IF idx >= nr
        THEN \* pcutils_arrlist_put_idx, _fill_empty_with_undefined
             [array   |-> a \o Undefineds(idx - nr) \o <<value>>,
              invoked |-> grown(ls, value),
              held    |-> [ref(h, value) EXCEPT ![UNDEFINED] = @ + (idx - nr)],
              ret     |-> TRUE]
        ELSE LET v == a[idx + 1]
             IN  IF v # value
                 THEN [array   |-> [a EXCEPT ![idx + 1] = value],
                       invoked |-> change(ls, v, value),
                       held    |-> ref(unref(h, v), value),
                       ret     |-> TRUE]
                 ELSE [array   |-> a,
                       invoked |-> <<>>,
                       held    |-> ref(h, value),
                       ret     |-> TRUE]

\* purc_variant_array_remove
purc_variant_array_remove(a, ls, h, idx) ==
    LET nr == Len(a)
    IN  IF idx >= nr
        THEN [array |-> a, invoked |-> <<>>, held |-> h, ret |-> TRUE]
        ELSE LET v == a[idx + 1]
             IN  [array   |-> SubSeq(a, 1, idx) \o SubSeq(a, idx + 2, nr),
                  invoked |-> shrunk(ls, v),
                  held    |-> unref(h, v),
                  ret     |-> TRUE]

\* what a mutation did to the array: it grew, shrank, or a member changed
KindOf(before, after) ==
    IF Len(after) > Len(before) THEN "grow"
    ELSE IF Len(after) < Len(before) THEN "shrink"
    ELSE IF after # before THEN "change"
    ELSE "none"

ArrayStart ==
    /\ array = <<>>
    /\ listeners = <<>>
    /\ held = [v \in AllValues |-> 0]
    /\ invoked = <<>>
    /\ array_op = [name |-> "make", idx |-> 0, kind |-> "none",
                   ret |-> TRUE]

\* the slot an insertion at idx puts its value in: idx, or the end of the
\* array when idx is at or beyond its size
SlotFor(idx) == IF idx >= Len(array) THEN Len(array) ELSE idx

\* a mutation: the array, the handler calls and the references it leaves;
\* idx is the slot of an insertion (0 for the other operations)
Mutate(name, idx, r) ==
    /\ Len(r.array) <= MaxArray
    /\ \A v \in AllValues : r.held[v] <= MaxHeld
    /\ array' = r.array
    /\ invoked' = r.invoked
    /\ held' = r.held
    /\ array_op' = [name |-> name, idx |-> idx,
                    kind |-> KindOf(array, r.array), ret |-> r.ret]
    /\ UNCHANGED listeners
    /\ UNCHANGED NotArray

\* purc_variant_register_post_listener on the array
RegisterListener(name) ==
    /\ Len(listeners) < MaxListeners
    /\ listeners' = Append(listeners, [name |-> name])
    /\ array_op' = [name |-> "register", idx |-> 0, kind |-> "none",
                    ret |-> TRUE]
    /\ invoked' = <<>>
    /\ UNCHANGED <<array, held>>
    /\ UNCHANGED NotArray

ArrayAppend(value) ==
    Mutate("append", SlotFor(Len(array)),
           purc_variant_array_append(array, listeners, held, value))

ArrayPrepend(value) ==
    Mutate("prepend", 0,
           purc_variant_array_prepend(array, listeners, held, value))

ArraySet(idx, value) ==
    Mutate("set", 0,
           purc_variant_array_set(array, listeners, held, idx, value))

ArrayRemove(idx) ==
    Mutate("remove", 0,
           purc_variant_array_remove(array, listeners, held, idx))

ArrayInsertBefore(idx, value) ==
    Mutate("insert_before", SlotFor(idx),
           purc_variant_array_insert_before(array, listeners, held, idx, value))

ArrayInsertAfter(idx, value) ==
    Mutate("insert_after", SlotFor(idx + 1),
           purc_variant_array_insert_after(array, listeners, held, idx, value))

ArrayNext ==
    \/ \E name \in MsgTypes : RegisterListener(name)
    \/ \E value \in Values : ArrayAppend(value) \/ ArrayPrepend(value)
    \/ \E idx \in 0..MaxArray, value \in Values :
          \/ ArraySet(idx, value)
          \/ ArrayInsertBefore(idx, value)
          \/ ArrayInsertAfter(idx, value)
    \/ \E idx \in 0..MaxArray : ArrayRemove(idx)

\* ---- properties of the array ----

\* the atom under which the listeners of a kind of mutation are registered
MsgTypeOf(kind) ==
    CASE kind = "grow" -> "grown"
      [] kind = "shrink" -> "shrunk"
      [] kind = "change" -> "change"

\* C7 (as claimed): after every mutation of the array each listener
\* registered for the event of that mutation (grow for an insertion, shrink
\* for a removal, change for a replacement) has been invoked exactly once, in
\* registration order, and no listener of another event has been invoked.
C7_ListenersFireOnce ==
    array_op.kind # "none" =>
        /\ \A i \in 1..Len(listeners) :
              Cardinality({k \in 1..Len(invoked) : invoked[k].listener = i})
                  = (IF listeners[i].name = MsgTypeOf(array_op.kind)
                     THEN 1 ELSE 0)
        /\ \A k \in 1..Len(invoked) :
              invoked[k].msg_type = MsgTypeOf(array_op.kind)

\* the member slots of the array that contain v
SlotsOf(v) == {i \in 1..Len(array) : array[i] = v}

\* C30 (as claimed): after any sequence of array operations the number of
\* references the array holds on a value equals the number of member slots
\* that contain the value, so that releasing the array, which drops one
\* reference for each slot, leaves none behind.
C30_OneReferencePerSlot ==
    \A v \in AllValues : held[v] = Cardinality(SlotsOf(v))

\* the step is insert_before(idx, value) with idx at or beyond the size
InsertBeyond(idx, value) == idx >= Len(array) /\ ArrayInsertBefore(idx, value)

\* the array has grown by one, value is its last member, and every member
\* it had keeps its index
Appended(value) ==
    /\ Len(array') = Len(array) + 1
    /\ array'[Len(array')] = value
    /\ \A i \in 1..Len(array) : array'[i] = array[i]

C31_Step ==
    \A idx \in 0..MaxArray, value \in Values :
        InsertBeyond(idx, value) => Appended(value)

\* C31: insert_before(n, v) with n greater than or equal to the size of the
\* array appends v: the size grows by exactly one, v is the last member,
\* and every previous member keeps its index.
C31_InsertBeyondAppends == [][C31_Step]_vars

\* insert_before has been called with an index at or beyond the size of an
\* array that had two members, and has put its value in the last slot
C31_Witness ==
    /\ array_op.name = "insert_before" /\ array_op.ret
    /\ Len(array) = 3 /\ array_op.idx = 2
    /\ array[1] # array[3]

(***************************************************************************)
(*                               $TIMERS                                   *)
(***************************************************************************)

MaxTimerObjs == 3           \* PurcTimer objects the heap has room for
TimerIds == {"clock", "tick"}
Intervals == {500, 1000}    \* milliseconds
TIMERS_STR_YES == "yes"
TIMERS_STR_TIMERS == "TIMERS"
TIMERS_STR_EXPIRED == "expired"
MaxQueue == 2               \* messages the coroutine may have pending
\* the operations timers_listener_handler is registered for
PCVAR_OPERATION_GROW == "grow"
PCVAR_OPERATION_SHRINK == "shrink"
PCVAR_OPERATION_CHANGE == "change"
PCVAR_OPERATIONS ==
    {PCVAR_OPERATION_GROW, PCVAR_OPERATION_SHRINK, PCVAR_OPERATION_CHANGE}
\* the stack of the coroutine whose vdom holds $TIMERS
stack == "stack"
Actives == {TIMERS_STR_YES, "no"}
Members_TIMERS == [id : TimerIds, interval : Intervals, active : Actives]
Addrs == 1..MaxTimerObjs

\* pcintr_timer_create: new PurcTimer(id, ctxt, func, RunLoop::current()),
\* or NULL if there is no memory for one.  m_interval is not initialised by
\* the constructor; every path sets it before it is used.
pcintr_timer_create(objs, id, m_ctxt) ==
    LET free == {a \in Addrs : objs[a] = NULL}
    IN  IF free = {} THEN [timer |-> NULL, objs |-> objs]
        ELSE LET a == CHOOSE x \in free : \A y \in free : x <= y
             IN  [timer |-> Ref(a),
                  objs |-> [objs EXCEPT ![a] =
                      Ref([m_id |-> id, m_ctxt |-> m_ctxt, m_interval |-> 0,
                           active |-> FALSE, repeat |-> 0])]]

\* pcintr_timer_set_interval: setInterval(uint32_t interval) keeps every
\* interval of Intervals, all below 2^32
pcintr_timer_set_interval(objs, timer, interval) ==
    IF timer = NULL THEN objs
    ELSE [objs EXCEPT ![Val(timer)] =
              Ref([Val(@) EXCEPT !.m_interval = interval])]

\* pcintr_timer_get_interval
pcintr_timer_get_interval(objs, timer) ==
    IF timer = NULL THEN 0 ELSE Val(objs[Val(timer)]).m_interval

\* pcintr_timer_start: tm->startRepeating(tm->getInterval())
pcintr_timer_start_idle(objs, timer) == objs
pcintr_timer_start(objs, timer) ==
    IF timer = NULL THEN objs
    ELSE LET tm == Val(objs[Val(timer)])
         IN  [objs EXCEPT ![Val(timer)] =
                  Ref([tm EXCEPT !.active = TRUE, !.repeat = tm.m_interval])]

\* pcintr_timer_stop
pcintr_timer_stop_idle(objs, timer) == objs
pcintr_timer_stop(objs, timer) ==
    IF timer = NULL THEN objs
    ELSE [objs EXCEPT ![Val(timer)] =
              Ref([Val(@) EXCEPT !.active = FALSE, !.repeat = 0])]

\* pcintr_timer_is_active
pcintr_timer_is_active(objs, timer) ==
    IF timer = NULL THEN FALSE ELSE Val(objs[Val(timer)]).active

\* pcintr_timer_destroy: delete tm; a timer that is deleted is stopped
pcintr_timer_destroy(objs, timer) ==
    IF timer = NULL THEN objs ELSE [objs EXCEPT ![Val(timer)] = NULL]

\* map_free_val: the map's free_val callback
map_free_val_keep(objs, val) == objs
map_free_val(objs, val) ==
    IF val # NULL THEN pcintr_timer_destroy(objs, val) ELSE objs

\* is_euqal(var, comp)
is_euqal(var, comp) == var # NULL /\ Val(var) = comp

\* find_timer
find_timer(map, id) == map[id]

\* add_timer: pcutils_map_insert(timers->timers_map, id, timer)
add_timer(map, id, timer) == [map EXCEPT ![id] = timer]

\* remove_timer: pcutils_map_erase frees the value with map_free_val
remove_timer(map, objs, id) ==
    [map |-> [map EXCEPT ![id] = NULL], objs |-> map_free_val(objs, map[id])]

\* get_inner_timer: [timer, map, objs]
get_inner_timer(map, objs, timer_var) ==
    LET timer == find_timer(map, timer_var.id)
    IN  IF timer # NULL THEN [timer |-> timer, map |-> map, objs |-> objs]
        ELSE LET made == pcintr_timer_create(objs, timer_var.id, stack)
             IN  IF made.timer = NULL
                 THEN [timer |-> NULL, map |-> map, objs |-> objs]
                 ELSE [timer |-> made.timer,
                       map |-> add_timer(map, timer_var.id, made.timer),
                       objs |-> made.objs]

\* destroy_inner_timer as if it left the timer in the table
destroy_inner_timer_keep(map, objs, timer_var) ==
    [map |-> map, objs |-> objs]
\* destroy_inner_timer: [map, objs]
destroy_inner_timer(map, objs, timer_var) ==
    IF find_timer(map, timer_var.id) # NULL
    THEN remove_timer(map, objs, timer_var.id)
    ELSE [map |-> map, objs |-> objs]

\* timers_listener_handler, msg_type == PCVAR_OPERATION_GROW, argv[0] = nv:
\* [ret, map, objs, started, stopped]
handle_grow(map, objs, nv) ==
    LET got == get_inner_timer(map, objs, nv)
    IN  IF got.timer = NULL
        THEN [ret |-> FALSE, map |-> got.map, objs |-> got.objs,
              started |-> FALSE, stopped |-> FALSE]
        ELSE LET set == pcintr_timer_set_interval(got.objs, got.timer,
                                                  nv.interval)
                 yes == is_euqal(Ref(nv.active), TIMERS_STR_YES)
             IN  [ret |-> TRUE, map |-> got.map,
                  objs |-> IF yes THEN pcintr_timer_start(set, got.timer)
                           ELSE set,
                  started |-> yes, stopped |-> FALSE]

\* timers_listener_handler, msg_type == PCVAR_OPERATION_SHRINK, argv[0] = ov
handle_shrink(map, objs, ov) ==
    LET gone == destroy_inner_timer(map, objs, ov)
    IN  [ret |-> TRUE, map |-> gone.map, objs |-> gone.objs,
         started |-> FALSE, stopped |-> FALSE]

\* timers_listener_handler, msg_type == PCVAR_OPERATION_CHANGE, argv[1] = nv
handle_change(map, objs, nv) ==
    LET got == get_inner_timer(map, objs, nv)
    IN  IF got.timer = NULL
        THEN [ret |-> FALSE, map |-> got.map, objs |-> got.objs,
              started |-> FALSE, stopped |-> FALSE]
        ELSE LET oval == pcintr_timer_get_interval(got.objs, got.timer)
                 set == IF oval # nv.interval
                        THEN pcintr_timer_set_interval(got.objs, got.timer,
                                                       nv.interval)
                        ELSE got.objs
                 next_active == is_euqal(Ref(nv.active), TIMERS_STR_YES)
             IN  [ret |-> TRUE, map |-> got.map,
                  objs |-> IF next_active
                           THEN pcintr_timer_start(set, got.timer)
                           ELSE pcintr_timer_stop(set, got.timer),
                  started |-> next_active, stopped |-> ~next_active]

\* pcintr_timers_init: an empty set keyed by id, an empty map, the handler
\* registered for grow, shrink and change
TimersStart ==
    /\ timers_var = [id \in TimerIds |-> NULL]
    /\ timers_map = [id \in TimerIds |-> NULL]
    /\ timer_objs = [a \in Addrs |-> NULL]
    /\ timers_op = [op |-> "init", id |-> "", was_active |-> FALSE,
                    started |-> FALSE, stopped |-> FALSE, ret |-> TRUE]
    /\ timers_listeners = PCVAR_OPERATIONS
    /\ msg_queue = <<>>

\* the timer of id is in the map and running
Running(id) ==
    timers_map[id] # NULL /\ pcintr_timer_is_active(timer_objs, timers_map[id])

\* a member with a new id is added to $TIMERS; the set fires `grow`
TimersGrow(nv) ==
    /\ PCVAR_OPERATION_GROW \in timers_listeners
    /\ timers_var[nv.id] = NULL
    /\ timers_var' = [timers_var EXCEPT ![nv.id] = Ref(nv)]
    /\ LET h == handle_grow(timers_map, timer_objs, nv)
       IN  /\ timers_map' = h.map
           /\ timer_objs' = h.objs
           /\ timers_op' = [op |-> "grow", id |-> nv.id,
                            was_active |-> Running(nv.id),
                            started |-> h.started, stopped |-> h.stopped,
                            ret |-> h.ret]
    /\ UNCHANGED <<timers_listeners, msg_queue>>
    /\ UNCHANGED NotTimers

\* the member of id is removed from $TIMERS; the set fires `shrink`
TimersShrink(id) ==
    /\ PCVAR_OPERATION_SHRINK \in timers_listeners
    /\ timers_var[id] # NULL
    /\ timers_var' = [timers_var EXCEPT ![id] = NULL]
    /\ LET h == handle_shrink(timers_map, timer_objs, Val(timers_var[id]))
       IN  /\ timers_map' = h.map
           /\ timer_objs' = h.objs
           /\ timers_op' = [op |-> "shrink", id |-> id,
                            was_active |-> Running(id),
                            started |-> h.started, stopped |-> h.stopped,
                            ret |-> h.ret]
    /\ UNCHANGED <<timers_listeners, msg_queue>>
    /\ UNCHANGED NotTimers

\* the member of nv.id is replaced by nv; the set fires `change`
TimersChange(nv) ==
    /\ PCVAR_OPERATION_CHANGE \in timers_listeners
    /\ timers_var[nv.id] # NULL
    /\ Val(timers_var[nv.id]) # nv
    /\ timers_var' = [timers_var EXCEPT ![nv.id] = Ref(nv)]
    /\ LET h == handle_change(timers_map, timer_objs, nv)
       IN  /\ timers_map' = h.map
           /\ timer_objs' = h.objs
           /\ timers_op' = [op |-> "change", id |-> nv.id,
                            was_active |-> Running(nv.id),
                            started |-> h.started, stopped |-> h.stopped,
                            ret |-> h.ret]
    /\ UNCHANGED <<timers_listeners, msg_queue>>
    /\ UNCHANGED NotTimers

\* timer_fire_func(id, m_ctxt): the calls of pcintr_dispatch_message it makes,
\* each [stack, source, type, sub_type, extra]
timer_fire_func_silent(id, m_ctxt) == <<>>
timer_fire_func(id, m_ctxt) ==
    <<[stack |-> m_ctxt, source |-> TIMERS_STR_TIMERS,
       type |-> TIMERS_STR_EXPIRED, sub_type |-> id, extra |-> NULL]>>

\* pcintr_dispatch_message: the message joins the queue of the coroutine
\* that owns the stack
pcintr_dispatch_message(queue, msgs) == queue \o msgs

\* PurcTimer::fired of a running timer: m_func(m_id, m_ctxt).  A timer
\* started with startRepeating stays active after it has fired.
TimerFired(a) ==
    /\ timer_objs[a] # NULL
    /\ Val(timer_objs[a]).active
    /\ Len(msg_queue) < MaxQueue
    /\ LET tm == Val(timer_objs[a])
       IN  msg_queue' = pcintr_dispatch_message(msg_queue,
                            timer_fire_func(tm.m_id, tm.m_ctxt))
    /\ timers_op' = [op |-> "expired", id |-> Val(timer_objs[a]).m_id,
                     was_active |-> TRUE, started |-> FALSE,
                     stopped |-> FALSE, ret |-> TRUE]
    /\ UNCHANGED <<timers_var, timers_map, timer_objs, timers_listeners>>
    /\ UNCHANGED NotTimers

\* the coroutine takes the oldest pending message and runs its observers
HandleMessage ==
    /\ msg_queue # <<>>
    /\ msg_queue' = Tail(msg_queue)
    /\ timers_op' = [op |-> "observed", id |-> Head(msg_queue).sub_type,
                     was_active |-> FALSE, started |-> FALSE,
                     stopped |-> FALSE, ret |-> TRUE]
    /\ UNCHANGED <<timers_var, timers_map, timer_objs, timers_listeners>>
    /\ UNCHANGED NotTimers

\* pcutils_map_destroy: every entry is erased, its value freed with
\* map_free_val
pcutils_map_destroy(map, objs) ==
    [map |-> [id \in DOMAIN map |-> NULL],
     objs |-> [a \in DOMAIN objs |->
                  IF \E id \in DOMAIN map : map[id] = Ref(a)
                  THEN map_free_val(objs, Ref(a))[a] ELSE objs[a]]]

\* pcintr_timers_destroy: [listeners, map, objs]; the three listeners are
\* revoked, the map destroyed, the reference to the set dropped
pcintr_timers_destroy_lazy(ls, map, objs) ==
    [listeners |-> {}, map |-> map, objs |-> objs]
pcintr_timers_destroy(ls, map, objs) ==
    LET gone == pcutils_map_destroy(map, objs)
    IN  [listeners |-> {}, map |-> gone.map, objs |-> gone.objs]

\* the coroutine is torn down: pcintr_timers_destroy(vdom->timers)
TimersDestroy ==
    /\ timers_listeners # {}
    /\ LET d == pcintr_timers_destroy(timers_listeners, timers_map, timer_objs)
       IN  /\ timers_listeners' = d.listeners
           /\ timers_map' = d.map
           /\ timer_objs' = d.objs
    /\ timers_op' = [op |-> "destroy", id |-> "",
                     was_active |-> \E id \in TimerIds : Running(id),
                     started |-> FALSE, stopped |-> FALSE, ret |-> TRUE]
    /\ UNCHANGED <<timers_var, msg_queue>>
    /\ UNCHANGED NotTimers

TimersNext ==
    \/ \E nv \in Members_TIMERS : TimersGrow(nv) \/ TimersChange(nv)
    \/ \E id \in TimerIds : TimersShrink(id)
    \/ \E a \in Addrs : TimerFired(a)
    \/ HandleMessage
    \/ TimersDestroy
\* ---- properties of $TIMERS ----

\* the PurcTimer the map holds for id
TimerOf(id) == Val(timer_objs[Val(timers_map[id])])

\* the last operation was `op` on the member nv of $TIMERS
LastMember == Val(timers_var[timers_op.id])

\* C8: when a member {id, interval, active} is added to $TIMERS, a timer
\* bound to that id is in the timer table with the member's interval, and it
\* has been started, repeating at that interval, if and only if active is
\* "yes".
C8_GrowCreatesTimer ==
    timers_op.op = "grow" =>
        /\ timers_map[timers_op.id] # NULL
        /\ TimerOf(timers_op.id).m_id = timers_op.id
        /\ TimerOf(timers_op.id).m_interval = LastMember.interval
        /\ timers_op.started <=> (LastMember.active = TIMERS_STR_YES)
        /\ TimerOf(timers_op.id).active <=> (LastMember.active = TIMERS_STR_YES)
        /\ TimerOf(timers_op.id).active =>
               TimerOf(timers_op.id).repeat = LastMember.interval

\* an active member has just been added beside an inactive one: its timer
\* runs, the other does not
C8_Witness ==
    /\ timers_op.op = "grow"
    /\ LastMember.active = TIMERS_STR_YES /\ LastMember.interval = 1000
    /\ TimerOf(timers_op.id).active /\ TimerOf(timers_op.id).repeat = 1000
    /\ \E id \in TimerIds :
          /\ id # timers_op.id /\ timers_var[id] # NULL
          /\ Val(timers_var[id]).active = "no" /\ ~Running(id)

\* C9: when a member is removed from $TIMERS the timer of its id is stopped
\* and destroyed: it is no longer in the timer table and no PurcTimer of that
\* id is left to fire; every timer alive is the one the table holds for a
\* member of the set, and a timer that expires belongs to a member.
C9_ShrinkDestroysTimer ==
    /\ timers_op.op = "shrink" =>
          /\ timers_map[timers_op.id] = NULL
          /\ \A a \in Addrs : timer_objs[a] # NULL =>
                                 Val(timer_objs[a]).m_id # timers_op.id
    /\ \A a \in Addrs : timer_objs[a] # NULL =>
          /\ timers_var[Val(timer_objs[a]).m_id] # NULL
          /\ timers_map[Val(timer_objs[a]).m_id] = Ref(a)
    /\ timers_op.op = "expired" => timers_var[timers_op.id] # NULL

\* a running timer has just been removed while another goes on running
C9_Witness ==
    /\ timers_op.op = "shrink" /\ timers_op.was_active
    /\ timers_var[timers_op.id] = NULL /\ timers_map[timers_op.id] = NULL
    /\ \E id \in TimerIds : id # timers_op.id /\ Running(id)

\* C10 (as claimed): when a member changes, the timer's interval is updated,
\* pcintr_timer_start is called exactly when active flips from no to yes and
\* pcintr_timer_stop exactly when it flips from yes to no.
C10_StartStopOnFlip ==
    timers_op.op = "change" =>
        /\ TimerOf(timers_op.id).m_interval = LastMember.interval
        /\ timers_op.started <=>
               (~timers_op.was_active /\ LastMember.active = TIMERS_STR_YES)
        /\ timers_op.stopped <=>
               (timers_op.was_active /\ LastMember.active # TIMERS_STR_YES)

\* C10 (amended): when a member changes, the timer's interval becomes the
\* member's; the timer is started whenever the new active is "yes", also if
\* it was running (it then repeats at the new interval), and stopped
\* whenever the new active is not "yes"; so it runs afterwards exactly if
\* active is "yes".
C10_StartStopFollowActive ==
    timers_op.op = "change" =>
        /\ timers_map[timers_op.id] # NULL
        /\ TimerOf(timers_op.id).m_interval = LastMember.interval
        /\ timers_op.started <=> (LastMember.active = TIMERS_STR_YES)
        /\ timers_op.stopped <=> (LastMember.active # TIMERS_STR_YES)
        /\ TimerOf(timers_op.id).active <=> (LastMember.active = TIMERS_STR_YES)
        /\ TimerOf(timers_op.id).repeat =
               (IF LastMember.active = TIMERS_STR_YES
                THEN LastMember.interval ELSE 0)

\* a running timer's member has been changed and stays active: the timer has
\* been started again
C10_Witness ==
    /\ timers_op.op = "change" /\ timers_op.was_active
    /\ LastMember.active = TIMERS_STR_YES
    /\ timers_op.started /\ ~timers_op.stopped
    /\ TimerOf(timers_op.id).active

\* the timer table holds for id a timer with the values of the member
TimerMatches(id) ==
    /\ timers_map[id] # NULL
    /\ timer_objs[Val(timers_map[id])] # NULL
    /\ TimerOf(id).m_id = id
    /\ TimerOf(id).m_interval = Val(timers_var[id]).interval
    /\ TimerOf(id).active <=> (Val(timers_var[id]).active = TIMERS_STR_YES)
    /\ Cardinality({a \in Addrs : /\ timer_objs[a] # NULL
                                  /\ Val(timer_objs[a]).m_id = id}) = 1

\* the timer table holds no timer for id
NoTimer(id) ==
    /\ timers_map[id] = NULL
    /\ \A a \in Addrs : timer_objs[a] # NULL => Val(timer_objs[a]).m_id # id

\* C36: after any sequence of additions, removals and changes on $TIMERS,
\* as long as the timers of the coroutine have not been destroyed, the timer
\* table holds exactly one timer for each id in the set and none for any
\* other id, and the interval and the running state of each timer are the
\* interval and active of the member with its id.
C36_TableMirrorsSet ==
    timers_listeners # {} =>
        \A id \in TimerIds :
            IF timers_var[id] # NULL THEN TimerMatches(id) ELSE NoTimer(id)

\* a running timer has been removed, and the member left has been changed to
\* another interval and is inactive
C36_Witness ==
    /\ timers_listeners # {}
    /\ timers_op.op = "shrink" /\ timers_op.was_active
    /\ NoTimer(timers_op.id)
    /\ \E id \in TimerIds :
          /\ timers_var[id] # NULL
          /\ Val(timers_var[id]).interval = 500
          /\ Val(timers_var[id]).active = "no"
          /\ TimerMatches(id)
          /\ msg_queue # <<>>

\* the message timer_fire_func dispatches for the timer of id
ExpiredMessage(id) ==
    [stack |-> stack, source |-> TIMERS_STR_TIMERS,
     type |-> TIMERS_STR_EXPIRED, sub_type |-> id, extra |-> NULL]

\* a step in which a timer expires puts exactly one message on the queue of
\* the owning coroutine, (source $TIMERS, "expired", the timer's id), and
\* leaves the timer running at its interval; no other step adds a message
ExpiryStep ==
    /\ \A a \in Addrs : TimerFired(a) =>
          /\ msg_queue' =
                 Append(msg_queue, ExpiredMessage(Val(timer_objs[a]).m_id))
          /\ timer_objs'[a] # NULL
          /\ Val(timer_objs'[a]).active
          /\ Val(timer_objs'[a]).repeat = Val(timer_objs'[a]).m_interval
    /\ Len(msg_queue') > Len(msg_queue) => \E a \in Addrs : TimerFired(a)

\* the timer of id has just expired
JustExpired(id) == timers_op.op = "expired" /\ timers_op.id = id

\* C11: each expiry of an active timer with id I dispatches exactly one
\* event (source $TIMERS, event "expired", sub-name I) to the coroutine that
\* owns the timer, and a repeating timer keeps expiring for as long as it
\* stays active: from every state in which it runs it expires again or is
\* stopped.
C11_ExpiryDispatchesOnce ==
    /\ [][ExpiryStep]_vars
    /\ \A id \in TimerIds : Running(id) ~> (JustExpired(id) \/ ~Running(id))

\* the timer "clock" has expired twice in a row and goes on running: two
\* events for it are pending
C11_Witness ==
    /\ JustExpired("clock") /\ Running("clock")
    /\ msg_queue = <<ExpiredMessage("clock"), ExpiredMessage("clock")>>

\* the coroutine has been torn down
TornDown == timers_listeners = {}

\* C12: once the coroutine is torn down every timer it owned is stopped and
\* released: its timer table is empty, no PurcTimer is left, and no timer
\* can fire.
C12_TeardownReleasesTimers ==
    TornDown =>
        /\ \A id \in TimerIds : timers_map[id] = NULL
        /\ \A a \in Addrs : timer_objs[a] = NULL
        /\ \A a \in Addrs : ~ENABLED TimerFired(a)

\* the coroutine has been torn down while a timer was running and with room
\* for its next event
C12_Witness ==
    /\ TornDown /\ timers_op.op = "destroy" /\ timers_op.was_active
    /\ Len(msg_queue) < MaxQueue
    /\ \E id \in TimerIds :
          timers_var[id] # NULL /\ Val(timers_var[id]).active = TIMERS_STR_YES

(***************************************************************************)
(*           RENDERER CLIENT: SESSION, PAGE AND DOM REQUESTS               *)
(***************************************************************************)

MaxSent == 5                \* requests the client sends in one run
Handles == {0, 1}           \* the resultValue of a response; 0 is no handle
DomHandles == {0, 1, 2}     \* the resultValue of a response to load

\* the request-id of a request that expects no response
PCINTR_RDR_NORETURN_REQUEST_ID == "-"
RequestIds == {NULL, Ref(PCINTR_RDR_NORETURN_REQUEST_ID), Ref("req-1")}

\* the error the transport leaves when a request cannot be sent or no
\* response to it arrives
TransportError == "PURC_ERROR_CONNECTION_ABORTED"

\* a response_msg: NULL, or a message with retCode and resultValue
ResponseMsgs ==
    {NULL, Ref([retCode |-> "PCRDR_SC_NOT_FOUND", resultValue |-> 0])}
        \cup {Ref([retCode |-> "PCRDR_SC_OK", resultValue |-> h]) :
                    h \in Handles \cup DomHandles}

\* the responses the renderer may give to the request of `call`
ResponsesTo(call) ==
    {resp \in ResponseMsgs :
        resp # NULL /\ call # "pcintr_rdr_page_control_load"
            => Val(resp).resultValue \in Handles}

IsOk(resp) == resp # NULL /\ Val(resp).retCode = "PCRDR_SC_OK"

\* pcintr_rdr_send_request_and_wait_response(conn, target, target_value,
\* operation, request_id, element_type, element, property, data_type, data,
\* data_len), its arguments given as the record req: the message it sends,
\* and whether it waits for the response.  It does not wait if request_id is
\* PCINTR_RDR_NORETURN_REQUEST_ID (pcrdr_send_request); otherwise it blocks
\* in pcrdr_send_request_and_wait_response.
pcintr_rdr_send_request_and_wait_response_nowait(req) ==
    [msg |-> req, wait |-> FALSE]
pcintr_rdr_send_request_and_wait_response(req) ==
    [msg |-> req,
     wait |-> ~(req.request_id # NULL
                /\ Val(req.request_id) = PCINTR_RDR_NORETURN_REQUEST_ID)]

\* the coroutine is running and not blocked in a request, and may send one
CanCall ==
    /\ waiting = NULL
    /\ traffic.nsent < MaxSent
    /\ client_op.name # "idle"
    /\ client_op.ret \notin {"SIGSEGV", "SIGABRT"}

\* a request goes out: it becomes the last request sent
Sent(t, msg) == [t EXCEPT !.sent = Ref(msg), !.nsent = @ + 1]
\* a response has come in, or the wait for one has failed
Received(t) == [t EXCEPT !.nrecv = @ + 1]

\* ---- pcrdr_init_instance ----

\* prot_names[rdr_prot], prot_vers[rdr_prot]
RdrProts == {"PURC_RDRPROT_HEADLESS", "PURC_RDRPROT_PURCMC"}
prot_names(rdr_prot) ==
    IF rdr_prot = "PURC_RDRPROT_HEADLESS"
    THEN "PURC_RDRPROT_NAME_HEADLESS" ELSE "PURC_RDRPROT_NAME_PURCMC"
prot_vers(rdr_prot) ==
    IF rdr_prot = "PURC_RDRPROT_HEADLESS"
    THEN "PURC_RDRPROT_VERSION_HEADLESS" ELSE "PURC_RDRPROT_VERSION_PURCMC"

\* what pcrdr_headless_connect / pcrdr_purcmc_connect hands back: no message
\* (the transport could not be opened), or the renderer's first message, which
\* carries the capabilities if it is a response with PCRDR_SC_OK
ConnectMsgs ==
    {NULL} \cup {Ref([type |-> t, retCode |-> c, caps |-> p]) :
                    t \in {"PCRDR_MSG_TYPE_RESPONSE", "PCRDR_MSG_TYPE_EVENT"},
                    c \in {"PCRDR_SC_OK", "PCRDR_SC_NOT_FOUND"},
                    p \in {"parsable", "unparsable"}}

\* The element and the data of a request are sequences of strings; the
\* empty sequence is no element, no data.

\* the data of startSession: vs[0], ..., vs[9], each key before its value
session_data(rdr_prot) ==
    <<"protocolName", prot_names(rdr_prot),
      "protocolVersion", prot_vers(rdr_prot),
      "hostName", "own_host_name",
      "appName", "app_name",
      "runnerName", "runner_name">>

\* the label `failed` of pcrdr_init_instance: the connection is dropped
init_failed(i) == [i EXCEPT !.conn_to_rdr = NULL]

\* pcrdr_init_instance with a protocol it does not know
InitNotSupported ==
    /\ CanCall /\ client_op.name = "start"
    /\ client_op' = [name |-> "pcrdr_init_instance",
                     ret |-> "PURC_ERROR_NOT_SUPPORTED", response |-> NULL]
    /\ UNCHANGED <<inst, co, traffic, waiting, last_error>>
    /\ UNCHANGED NotClient

\* pcrdr_init_instance up to the wait for the response to startSession
InitInstance(rdr_prot, conn_type_, msg) ==
    /\ CanCall /\ client_op.name = "start"
    /\ IF msg = NULL
       THEN \* the transport was not opened
            /\ inst' = init_failed(inst)
            /\ last_error' = TransportError
            /\ client_op' = [name |-> "pcrdr_init_instance",
                             ret |-> TransportError, response |-> NULL]
            /\ UNCHANGED <<traffic, waiting>>
       ELSE LET got == Val(msg).type = "PCRDR_MSG_TYPE_RESPONSE"
                           /\ Val(msg).retCode = "PCRDR_SC_OK"
                caps == IF ~got THEN inst.rdr_caps
                        ELSE IF Val(msg).caps = "parsable"
                             THEN Ref([session_handle |-> 0])
                             ELSE NULL
            IN  IF got /\ caps = NULL
                THEN \* pcrdr_parse_renderer_capabilities failed
                     /\ inst' = init_failed([inst EXCEPT !.rdr_caps = NULL])
                     /\ client_op' = [name |-> "pcrdr_init_instance",
                                      ret |-> last_error, response |-> NULL]
                     /\ UNCHANGED <<traffic, waiting, last_error>>
                ELSE LET req == [target |-> "PCRDR_MSG_TARGET_SESSION",
                                 target_value |-> 0,
                                 operation |-> "startSession",
                                 request_id |-> NULL,
                                 element_type |-> "PCRDR_MSG_ELEMENT_TYPE_VOID",
                                 element |-> NULL, property |-> NULL,
                                 dataType |-> "PCRDR_MSG_DATA_TYPE_EJSON",
                                 data |-> session_data(rdr_prot)]
                     IN  /\ inst' = [conn_to_rdr |-> Ref(conn_type_),
                                     rdr_caps |-> caps]
                         /\ traffic' = Sent(traffic, req)
                         /\ waiting' = Ref([call |-> "pcrdr_init_instance"])
                         /\ UNCHANGED <<last_error, client_op>>
    /\ UNCHANGED co
    /\ UNCHANGED NotClient

\* pcrdr_init_instance after pcrdr_send_request_and_wait_response: what
\* becomes of the instance, the error and the return value.  With no
\* capabilities parsed, inst->rdr_caps->session_handle = ... writes through
\* a null pointer: the process dies, or the store has no effect.
init_on_response(i, err, resp, store_lost) ==
    IF resp = NULL
    THEN [inst |-> init_failed(i), err |-> TransportError,
          ret |-> TransportError]
    ELSE IF IsOk(resp)
    THEN IF i.rdr_caps = NULL
         THEN [inst |-> i, err |-> err,
               ret |-> IF store_lost THEN "PURC_ERROR_OK" ELSE "SIGSEGV"]
         ELSE [inst |-> [i EXCEPT !.rdr_caps =
                            Ref([session_handle |-> Val(resp).resultValue])],
               err |-> err, ret |-> "PURC_ERROR_OK"]
    ELSE [inst |-> init_failed(i), err |-> "PCRDR_ERROR_SERVER_REFUSED",
          ret |-> "PCRDR_ERROR_SERVER_REFUSED"]

\* ---- pcintr_attach_to_renderer ----

PageTypes == {"PCRDR_PAGE_TYPE_PLAINWIN", "PCRDR_PAGE_TYPE_WIDGET"}
TargetGroups == {NULL, Ref("group")}
\* purc_renderer_extra_info: none, or one with or without page_groups
ExtraInfos == {NULL, Ref([page_groups |-> NULL]),
               Ref([page_groups |-> Ref("page_groups")])}

\* pcintr_rdr_add_page_groups: the request
add_page_groups_request(workspace, page_groups) ==
    [target |-> "PCRDR_MSG_TARGET_WORKSPACE", target_value |-> workspace,
     operation |-> "addPageGroups", request_id |-> NULL,
     element_type |-> "PCRDR_MSG_ELEMENT_TYPE_VOID", element |-> NULL,
     property |-> NULL, dataType |-> "PCRDR_MSG_DATA_TYPE_HTML",
     data |-> <<page_groups>>]

\* pcintr_rdr_add_page_groups after the response: [retv, err]
add_page_groups_on_response(err, resp) ==
    IF resp = NULL THEN [retv |-> FALSE, err |-> TransportError]
    ELSE IF IsOk(resp) THEN [retv |-> TRUE, err |-> err]
    ELSE [retv |-> FALSE, err |-> "PCRDR_ERROR_SERVER_REFUSED"]

\* pcintr_attach_to_renderer after pcintr_rdr_add_page_groups: a false
\* return is reported as PCRDR_ERROR_SERVER_REFUSED
attach_after_add_page_groups(added) ==
    IF added.retv THEN added.err ELSE "PCRDR_ERROR_SERVER_REFUSED"

\* pcintr_rdr_create_page up to its request: [err, req]; a widget needs a
\* target group
create_page_request(workspace, page_type, target_group, extra_info) ==
    IF page_type = "PCRDR_PAGE_TYPE_WIDGET" /\ target_group = NULL
    THEN [err |-> Ref("PURC_ERROR_INVALID_VALUE"), req |-> NULL]
    ELSE [err |-> NULL,
          req |-> Ref(
            [target |-> "PCRDR_MSG_TARGET_WORKSPACE",
             target_value |-> workspace,
             operation |-> IF page_type = "PCRDR_PAGE_TYPE_PLAINWIN"
                           THEN "createPlainWindow" ELSE "createWidget",
             request_id |-> NULL,
             element_type |-> "PCRDR_MSG_ELEMENT_TYPE_ID",
             element |-> <<"main">> \o target_group,
             property |-> NULL,
             dataType |-> IF extra_info # NULL
                          THEN "PCRDR_MSG_DATA_TYPE_JSON"
                          ELSE "PCRDR_MSG_DATA_TYPE_VOID",
             data |-> IF extra_info # NULL THEN <<"extra_info">>
                      ELSE NULL])]

\* pcintr_rdr_create_page after the response: [page_handle, err]
create_page_on_response(err, resp) ==
    IF resp = NULL THEN [page_handle |-> 0, err |-> TransportError]
    ELSE IF IsOk(resp)
    THEN [page_handle |-> Val(resp).resultValue, err |-> err]
    ELSE [page_handle |-> 0, err |-> "PCRDR_ERROR_SERVER_REFUSED"]

\* pcintr_attach_to_renderer from the call of pcintr_rdr_create_page to the
\* wait for its response; t is the traffic so far, err the error so far
AttachCreatePage(t, err, page_type, target_group, extra_info) ==
    LET made == create_page_request(0, page_type, target_group, extra_info)
    IN  IF made.req = NULL
        THEN /\ last_error' = Val(made.err)
             /\ client_op' = [name |-> "pcintr_attach_to_renderer",
                              ret |-> "false", response |-> NULL]
             /\ traffic' = t
             /\ waiting' = NULL
        ELSE LET call == pcintr_rdr_send_request_and_wait_response(
                             Val(made.req))
             IN  /\ traffic' = Sent(t, call.msg)
                 /\ waiting' = Ref([call |-> "pcintr_rdr_create_page",
                                    page_type |-> page_type])
                 /\ last_error' = err
                 /\ UNCHANGED client_op

\* pcintr_attach_to_renderer up to the wait for the first response
Attach(page_type, target_group, extra_info) ==
    /\ CanCall
    /\ inst.rdr_caps # NULL           \* assert(inst && inst->rdr_caps)
    /\ IF inst.conn_to_rdr = NULL
       THEN /\ last_error' = "PURC_ERROR_CONNECTION_ABORTED"
            /\ client_op' = [name |-> "pcintr_attach_to_renderer",
                             ret |-> "false", response |-> NULL]
            /\ UNCHANGED <<traffic, waiting>>
       ELSE IF extra_info # NULL /\ Val(extra_info).page_groups # NULL
       THEN LET call == pcintr_rdr_send_request_and_wait_response(
                            add_page_groups_request(0,
                                Val(Val(extra_info).page_groups)))
            IN  /\ traffic' = Sent(traffic, call.msg)
                /\ waiting' = Ref([call |-> "pcintr_rdr_add_page_groups",
                                   page_type |-> page_type,
                                   target_group |-> target_group,
                                   extra_info |-> extra_info])
                /\ UNCHANGED <<last_error, client_op>>
       ELSE AttachCreatePage(traffic, last_error, page_type, target_group,
                             extra_info)
    /\ UNCHANGED <<inst, co>>
    /\ UNCHANGED NotClient

\* ---- pcintr_rdr_page_control_load: a load sent as one request ----

\* the target of a request on the coroutine's page
page_target(page_type) ==
    IF page_type = "PCRDR_PAGE_TYPE_PLAINWIN"
    THEN "PCRDR_MSG_TARGET_PLAINWINDOW" ELSE "PCRDR_MSG_TARGET_WIDGET"

\* the load request: on a move buffer it carries the document entity, on
\* another transport the serialized text (here one that fits one write)
load_request(c, conn) ==
    [target |-> page_target(c.target_page_type),
     target_value |-> c.target_page_handle,
     operation |-> "load", request_id |-> NULL,
     element_type |-> "PCRDR_MSG_ELEMENT_TYPE_HANDLE",
     element |-> <<"%llx", "co">>, property |-> NULL,
     dataType |-> IF conn = Ref("CT_MOVE_BUFFER")
                  THEN "PCRDR_MSG_DATA_TYPE_JSON" ELSE "doc->def_text_type",
     data |-> IF conn = Ref("CT_MOVE_BUFFER") THEN <<"native", "doc">>
              ELSE <<"document">>]

\* pcintr_rdr_page_control_load after the response: [co, err, ret]
load_on_response_blind(c, err, resp) ==
    [co |-> c, err |-> err, ret |-> "true"]
load_on_response(c, err, resp) ==
    IF resp = NULL THEN [co |-> c, err |-> TransportError, ret |-> "false"]
    ELSE IF IsOk(resp)
    THEN [co |-> [c EXCEPT !.target_dom_handle = Val(resp).resultValue],
          err |-> err, ret |-> "true"]
    ELSE [co |-> c, err |-> "PCRDR_ERROR_SERVER_REFUSED", ret |-> "false"]

PageLoad ==
    /\ CanCall
    /\ co.target_page_handle # 0      \* assert(stack->co->target_page_handle)
    /\ LET call == pcintr_rdr_send_request_and_wait_response(
                        load_request(co, inst.conn_to_rdr))
       IN  /\ traffic' = Sent(traffic, call.msg)
           /\ waiting' = Ref([call |-> "pcintr_rdr_page_control_load"])
    /\ UNCHANGED <<inst, co, last_error, client_op>>
    /\ UNCHANGED NotClient

\* ---- pcintr_rdr_send_dom_req ----

DomOps == {"PCRDR_K_OPERATION_APPEND", "PCRDR_K_OPERATION_DISPLACE"}

\* rdr_ops[op]
rdr_ops(op) ==
    CASE op = "PCRDR_K_OPERATION_APPEND" -> "append"
      [] op = "PCRDR_K_OPERATION_PREPEND" -> "prepend"
      [] op = "PCRDR_K_OPERATION_INSERTBEFORE" -> "insertBefore"
      [] op = "PCRDR_K_OPERATION_INSERTAFTER" -> "insertAfter"
      [] op = "PCRDR_K_OPERATION_DISPLACE" -> "displace"
      [] op = "PCRDR_K_OPERATION_UPDATE" -> "update"
      [] op = "PCRDR_K_OPERATION_ERASE" -> "erase"
      [] op = "PCRDR_K_OPERATION_CLEAR" -> "clear"
      [] op = "PCRDR_K_OPERATION_CALLMETHOD" -> "callMethod"
      [] OTHER -> "startSession"      \* rdr_ops[0]

\* pcintr_doc_op_to_rdr_op
pcintr_doc_op_to_rdr_op(op) ==
    CASE op = "PCDOC_OP_APPEND" -> "PCRDR_K_OPERATION_APPEND"
      [] op = "PCDOC_OP_PREPEND" -> "PCRDR_K_OPERATION_PREPEND"
      [] op = "PCDOC_OP_INSERTBEFORE" -> "PCRDR_K_OPERATION_INSERTBEFORE"
      [] op = "PCDOC_OP_INSERTAFTER" -> "PCRDR_K_OPERATION_INSERTAFTER"
      [] op = "PCDOC_OP_DISPLACE" -> "PCRDR_K_OPERATION_DISPLACE"
      [] op = "PCDOC_OP_UPDATE" -> "PCRDR_K_OPERATION_UPDATE"
      [] op = "PCDOC_OP_ERASE" -> "PCRDR_K_OPERATION_ERASE"
      [] op = "PCDOC_OP_CLEAR" -> "PCRDR_K_OPERATION_CLEAR"
      [] OTHER -> "PCRDR_K_OPERATION_STARTSESSION"    \* 0

ElementTypes == {"PCRDR_MSG_ELEMENT_TYPE_HANDLE", "PCRDR_MSG_ELEMENT_TYPE_ID",
                 "PCRDR_MSG_ELEMENT_TYPE_CSS"}
Properties == {NULL, Ref("class")}
\* doc->ldc, kept by code outside this file: 0 for a suppressed document
Ldcs == {0, 1}

\* the arguments of pcintr_rdr_send_dom_req other than the stack
DomArgs ==
    [op : DomOps, request_id : RequestIds, element_type : ElementTypes,
     css_selector : {"#sel"}, element : {"elem"}, ref_elem : {"elem"},
     property : Properties, data_type : {"PCRDR_MSG_DATA_TYPE_PLAIN"},
     data : {"V"}]

\* pcintr_rdr_send_dom_req up to the request: [req, err]; req is NULL for a
\* null page or a suppressed document, and when the element cannot be
\* written into elem (err is then set)
pcintr_rdr_send_dom_req_other_page(c, ldc, conn, a) ==
    [req |-> Ref([target |-> "PCRDR_MSG_TARGET_DOM",
                  target_value |-> c.target_page_handle,
                  operation |-> rdr_ops(a.op), request_id |-> a.request_id,
                  element_type |-> a.element_type,
                  element |-> <<"%s", a.css_selector>>,
                  property |-> a.property,
                  dataType |-> a.data_type, data |-> <<a.data>>]),
     err |-> NULL]
pcintr_rdr_send_dom_req(c, ldc, conn, a) ==
    IF c.target_page_handle = 0 \/ c.target_dom_handle = 0 \/ ldc = 0
    THEN [req |-> NULL, err |-> NULL]
    ELSE LET operation ==
                 IF a.property # NULL /\ a.op = "PCRDR_K_OPERATION_DISPLACE"
                 THEN "update" ELSE rdr_ops(a.op)
             elem ==
                 IF a.element_type = "PCRDR_MSG_ELEMENT_TYPE_HANDLE"
                 THEN <<"%llx", a.element>>
                 ELSE IF a.element_type = "PCRDR_MSG_ELEMENT_TYPE_ID"
                 THEN <<"%s", a.css_selector>>
                 ELSE NULL                       \* n = -1
         IN  IF elem = NULL
             THEN [req |-> NULL, err |-> Ref("PURC_ERROR_BAD_STDC_CALL")]
             ELSE [req |-> Ref(
                     [target |-> "PCRDR_MSG_TARGET_DOM",
                      target_value |-> c.target_dom_handle,
                      operation |-> operation,
                      request_id |-> a.request_id,
                      element_type |-> a.element_type,
                      element |-> elem,
                      property |-> a.property,
                      dataType |-> IF conn = Ref("CT_MOVE_BUFFER")
                                   THEN "PCRDR_MSG_DATA_TYPE_JSON"
                                   ELSE a.data_type,
                      data |-> IF conn = Ref("CT_MOVE_BUFFER")
                               THEN <<"native", a.ref_elem>>
                               ELSE <<a.data>>]),
                   err |-> NULL]

\* pcintr_rdr_send_dom_req after the response: [ret, err]
dom_req_on_response(err, resp, waited) ==
    IF resp = NULL
    THEN [ret |-> NULL, err |-> IF waited THEN TransportError ELSE err]
    ELSE IF IsOk(resp) THEN [ret |-> resp, err |-> err]
    ELSE [ret |-> NULL, err |-> "PCRDR_ERROR_SERVER_REFUSED"]

\* pcintr_rdr_send_dom_req, called by `caller`, up to the wait for the
\* response, or to its return if it does not wait
SendDomReq(caller, a, ldc) ==
    /\ inst.conn_to_rdr # NULL
    /\ LET made == pcintr_rdr_send_dom_req(co, ldc, inst.conn_to_rdr, a)
       IN  IF made.req = NULL
           THEN /\ last_error' = IF made.err = NULL THEN last_error
                                 ELSE Val(made.err)
                /\ client_op' = [name |-> caller, ret |-> "NULL",
                                 response |-> NULL]
                /\ UNCHANGED <<traffic, waiting>>
           ELSE LET call == pcintr_rdr_send_request_and_wait_response(
                                Val(made.req))
                IN  /\ traffic' = Sent(traffic, call.msg)
                    /\ IF call.wait
                       THEN /\ waiting' = Ref([call |-> caller])
                            /\ UNCHANGED <<last_error, client_op>>
                       ELSE LET done == dom_req_on_response(last_error, NULL,
                                                            FALSE)
                            IN  /\ waiting' = NULL
                                /\ last_error' = done.err
                                /\ client_op' = [name |-> caller,
                                                 ret |-> "NULL",
                                                 response |-> NULL]
    /\ UNCHANGED <<inst, co>>
    /\ UNCHANGED NotClient

DomReq(a, ldc) ==
    /\ CanCall
    /\ SendDomReq("pcintr_rdr_send_dom_req", a, ldc)

\* ---- update: displacing an attribute of a target element (update.c) ----

UpdateTos == {NULL, Ref("displace"), Ref("append")}
\* the source value: a string, or a value that is not a string
UpdateSrcs == {[type |-> "string", text |-> "V"],
               [type |-> "number", text |-> "7"]}

\* update_target_attr(stack, target, at, to, src, with_eval):
\* [r, set]; set is the pcintr_util_set_attribute(target, at, value) call it
\* makes, r its return value, "PC_ASSERT" where it runs PC_ASSERT(0)
update_target_attr(at, to, src) ==
    IF src.type = "string"
    THEN IF to = "displace"
         THEN [r |-> "0", set |-> Ref([name |-> at, value |-> src.text])]
         ELSE [r |-> "PC_ASSERT", set |-> NULL]
    ELSE \* purc_variant_stringify_alloc(&sv, src)
         [r |-> "0", set |-> Ref([name |-> at, value |-> src.text])]

\* update_target for an `at` of the form attr.NAME; s_to is "displace"
\* unless `to` is given
update_target(name, to, src) ==
    update_target_attr(name, IF to # NULL THEN Val(to) ELSE "displace", src)

\* pcintr_util_set_attribute(target, name, value): the DOM request it hands
\* to pcintr_rdr_send_dom_req
pcintr_util_set_attribute(target, name, value) ==
    [op |-> pcintr_doc_op_to_rdr_op("PCDOC_OP_DISPLACE"),
     request_id |-> NULL,
     element_type |-> "PCRDR_MSG_ELEMENT_TYPE_HANDLE",
     css_selector |-> "", element |-> target, ref_elem |-> target,
     property |-> Ref(name), data_type |-> "PCRDR_MSG_DATA_TYPE_PLAIN",
     data |-> value]

\* <update on=target at="attr.class" to=... with=src>: update_target on the
\* one target element; asserts tells whether PC_ASSERT is compiled in
UpdateAttr(to, src, ldc, asserts) ==
    /\ CanCall
    /\ LET did == update_target("class", to, src)
       IN  IF did.set = NULL
           THEN /\ client_op' = [name |-> "update_target",
                                 ret |-> IF asserts THEN "SIGABRT" ELSE "-1",
                                 response |-> NULL]
                /\ UNCHANGED <<inst, co, traffic, waiting, last_error>>
                /\ UNCHANGED NotClient
           ELSE SendDomReq("update_target",
                    pcintr_util_set_attribute("elem", Val(did.set).name,
                                              Val(did.set).value), ldc)

\* ---- the response arrives, or the wait for it fails ----

\* the blocked call goes on from pcrdr_send_request_and_wait_response to its
\* return, or to the next request it waits for
Receive(resp, store_lost) ==
    /\ waiting # NULL
    /\ resp \in ResponsesTo(Val(waiting).call)
    /\ LET w == Val(waiting)
           t == Received(traffic)
       IN  CASE w.call = "pcrdr_init_instance" ->
                  LET r == init_on_response(inst, last_error, resp, store_lost)
                  IN  /\ inst' = r.inst
                      /\ last_error' = r.err
                      /\ client_op' = [name |-> w.call, ret |-> r.ret,
                                       response |-> resp]
                      /\ traffic' = t
                      /\ waiting' = NULL
                      /\ UNCHANGED co
             [] w.call = "pcintr_rdr_add_page_groups" ->
                  LET added == add_page_groups_on_response(last_error, resp)
                  IN  /\ IF added.retv
                         THEN AttachCreatePage(t, added.err, w.page_type,
                                               w.target_group, w.extra_info)
                         ELSE /\ last_error' =
                                     attach_after_add_page_groups(added)
                              /\ client_op' =
                                     [name |-> "pcintr_attach_to_renderer",
                                      ret |-> "false", response |-> resp]
                              /\ traffic' = t
                              /\ waiting' = NULL
                      /\ UNCHANGED <<inst, co>>
             [] w.call = "pcintr_rdr_create_page" ->
                  LET made == create_page_on_response(last_error, resp)
                  IN  /\ last_error' = made.err
                      /\ co' = IF made.page_handle = 0 THEN co
                               ELSE [co EXCEPT
                                       !.target_page_type = w.page_type,
                                       !.target_workspace_handle = 0,
                                       !.target_page_handle = made.page_handle]
                      /\ client_op' = [name |-> "pcintr_attach_to_renderer",
                                       ret |-> IF made.page_handle = 0
                                               THEN "false" ELSE "true",
                                       response |-> resp]
                      /\ traffic' = t
                      /\ waiting' = NULL
                      /\ UNCHANGED inst
             [] w.call = "pcintr_rdr_page_control_load" ->
                  LET r == load_on_response(co, last_error, resp)
                  IN  /\ co' = r.co
                      /\ last_error' = r.err
                      /\ client_op' = [name |-> w.call, ret |-> r.ret,
                                       response |-> resp]
                      /\ traffic' = t
                      /\ waiting' = NULL
                      /\ UNCHANGED inst
             [] OTHER ->    \* a caller of pcintr_rdr_send_dom_req
                  LET r == dom_req_on_response(last_error, resp, TRUE)
                  IN  /\ last_error' = r.err
                      /\ client_op' = [name |-> w.call,
                                       ret |-> IF r.ret = NULL THEN "NULL"
                                               ELSE "response_msg",
                                       response |-> resp]
                      /\ traffic' = t
                      /\ waiting' = NULL
                      /\ UNCHANGED <<inst, co>>
    /\ UNCHANGED NotClient

\* a new instance: no connection, no capabilities, no page
ClientStart ==
    /\ inst = [conn_to_rdr |-> NULL, rdr_caps |-> NULL]
    /\ co = [target_page_type |-> "PCRDR_PAGE_TYPE_NULL",
             target_workspace_handle |-> 0, target_page_handle |-> 0,
             target_dom_handle |-> 0]
    /\ traffic = [sent |-> NULL, nsent |-> 0, nrecv |-> 0]
    /\ waiting = NULL
    /\ last_error = "PURC_ERROR_OK"
    /\ client_op = [name |-> "start", ret |-> "", response |-> NULL]

ConnTypes == {"CT_MOVE_BUFFER", "CT_SOCKET"}

ClientNext ==
    \/ InitNotSupported
    \/ \E p \in RdrProts, c \in ConnTypes, m \in ConnectMsgs :
          InitInstance(p, c, m)
    \/ \E p \in PageTypes, g \in TargetGroups, x \in ExtraInfos :
          Attach(p, g, x)
    \/ PageLoad
    \/ \E a \in DomArgs, ldc \in Ldcs : DomReq(a, ldc)
    \/ \E to \in UpdateTos, src \in UpdateSrcs, ldc \in Ldcs,
          asserts \in BOOLEAN : UpdateAttr(to, src, ldc, asserts)
    \/ \E resp \in ResponseMsgs, store_lost \in BOOLEAN :
          Receive(resp, store_lost)

\* ---- properties of the renderer client ----

\* a step that sends a request
SendStep == traffic'.nsent = traffic.nsent + 1
\* a step in which a response comes in, or the wait for one fails
ReceiveStep == traffic'.nrecv = traffic.nrecv + 1
\* the request is issued with the no-return request-id
IsNoReturn(msg) == msg.request_id = Ref(PCINTR_RDR_NORETURN_REQUEST_ID)

\* the steps C13 allows
C13_Step ==
    /\ SendStep =>
          /\ waiting = NULL \/ ReceiveStep
          /\ IF IsNoReturn(Val(traffic'.sent))
             THEN waiting' = NULL
             ELSE waiting' # NULL
    /\ waiting # NULL /\ waiting' # waiting => ReceiveStep

\* C13: a request issued with the no-return request-id is sent without
\* waiting for a response; a request issued with any other request-id
\* blocks the coroutine, which sends no other request until the response to
\* this one has been received (or the wait for it has failed).
C13_NoReturnOrBlocking == [][C13_Step]_vars

\* the coroutine has sent a no-return DOM request and has gone on, after
\* having waited for the response to each request before it
C13_Witness ==
    /\ waiting = NULL
    /\ traffic.sent # NULL /\ IsNoReturn(Val(traffic.sent))
    /\ Val(traffic.sent).target = "PCRDR_MSG_TARGET_DOM"
    /\ traffic.nsent >= 4 /\ traffic.nrecv = traffic.nsent - 1

\* the step in which pcintr_rdr_page_control_load gets its response, or
\* fails to get one
LoadAnswered ==
    /\ waiting # NULL
    /\ Val(waiting).call = "pcintr_rdr_page_control_load"
    /\ ReceiveStep

\* the step sends a request on the DOM target
DomSendStep ==
    SendStep /\ Val(traffic'.sent).target = "PCRDR_MSG_TARGET_DOM"

\* the steps C14 allows
C14_Step ==
    /\ LoadAnswered =>
          IF IsOk(client_op'.response)
          THEN co'.target_dom_handle = Val(client_op'.response).resultValue
          ELSE co'.target_dom_handle = co.target_dom_handle
    /\ co'.target_dom_handle # co.target_dom_handle => LoadAnswered
    /\ DomSendStep =>
          Val(traffic'.sent).target_value = co.target_dom_handle

\* C14: a load answered with an OK response sets the coroutine's DOM handle
\* to the result-value of that response, a load that fails or is answered
\* with another code leaves the DOM handle as it was, nothing else changes
\* the DOM handle, and every DOM request targets the DOM handle.
C14_DomHandleFromLoad == [][C14_Step]_vars

\* a DOM request has gone out to the handle 2 that an OK load returned
C14_Witness ==
    /\ co.target_dom_handle = 2
    /\ traffic.sent # NULL
    /\ Val(traffic.sent).target = "PCRDR_MSG_TARGET_DOM"
    /\ Val(traffic.sent).target_value = 2

\* the step in which an operation returns after its wait for a response
Answered == ReceiveStep /\ waiting' = NULL

\* the steps C16 allows
C16_Step ==
    /\ Answered /\ client_op'.response = NULL
          => last_error' = "PURC_ERROR_CONNECTION_ABORTED"
    /\ Answered /\ client_op'.response # NULL /\ ~IsOk(client_op'.response)
          => last_error' = "PCRDR_ERROR_SERVER_REFUSED"
    /\ (inst.conn_to_rdr = NULL /\ client_op' # client_op
            /\ client_op'.name = "pcintr_attach_to_renderer")
          => last_error' = "PURC_ERROR_CONNECTION_ABORTED"

\* C16 (as claimed): an operation of the renderer client that fails for a
\* transport reason (no connection, a failed send or a missing response)
\* reports CONNECTION_ABORTED, and one that gets a response with a code
\* other than OK reports SERVER_REFUSED.
C16_ErrorsByCause == [][C16_Step]_vars

\* the step sends startSession
StartSessionStep ==
    SendStep /\ Val(traffic'.sent).operation = "startSession"

\* the step in which pcrdr_init_instance gets the response to startSession,
\* or fails to get one
InitAnswered ==
    /\ waiting # NULL /\ Val(waiting).call = "pcrdr_init_instance"
    /\ ReceiveStep

\* the names of the data of a startSession request
SessionKeys(msg) == {msg.data[2 * k - 1] : k \in 1..(Len(msg.data) \div 2)}

\* the steps C17 allows
C17_Step ==
    /\ StartSessionStep =>
          /\ traffic.nsent = 0
          /\ inst'.conn_to_rdr # NULL
          /\ inst'.rdr_caps # NULL
          /\ Len(Val(traffic'.sent).data) = 10
          /\ SessionKeys(Val(traffic'.sent)) =
                {"protocolName", "protocolVersion", "hostName", "appName",
                 "runnerName"}
    /\ InitAnswered =>
          IF IsOk(client_op'.response)
          THEN /\ inst'.rdr_caps # NULL
               /\ Val(inst'.rdr_caps).session_handle =
                      Val(client_op'.response).resultValue
               /\ client_op'.ret = "PURC_ERROR_OK"
          ELSE inst'.rdr_caps = inst.rdr_caps

\* C17 (as claimed): initialisation opens the transport, receives the
\* capabilities of the server and then issues startSession with
\* protocolName, protocolVersion, hostName, appName and runnerName, and the
\* session handle is stored in the capabilities of the instance if and only
\* if the response to startSession is OK.
C17_InitThenSession == [][C17_Step]_vars

\* the coroutine has a page and a loaded document
Loaded == co.target_page_handle # 0 /\ co.target_dom_handle # 0

\* a document operation on an element addressed by handle or by id, on a
\* document the renderer holds (doc->ldc is 1)
DocOpStep ==
    \E a \in DomArgs :
        /\ a.element_type # "PCRDR_MSG_ELEMENT_TYPE_CSS"
        /\ DomReq(a, 1)

\* <update at="attr.class" to="displace" with=src> on the element "elem" of
\* such a document
DisplaceAttrStep(src) ==
    \E asserts \in BOOLEAN : UpdateAttr(Ref("displace"), src, 1, asserts)

\* the step sends exactly one request, on the DOM target
OneDomRequest ==
    /\ DomSendStep
    /\ Val(traffic'.sent).target_value = co.target_dom_handle

\* the request of the step is an update of the attribute `class` of the
\* element "elem", addressed by its handle
UpdatesClassOfElem ==
    LET msg == Val(traffic'.sent)
    IN  /\ msg.operation = "update"
        /\ msg.element_type = "PCRDR_MSG_ELEMENT_TYPE_HANDLE"
        /\ msg.element = <<"%llx", "elem">>
        /\ msg.property = Ref("class")

\* the request of the step carries the plain text
CarriesPlain(text) ==
    /\ Val(traffic'.sent).dataType = "PCRDR_MSG_DATA_TYPE_PLAIN"
    /\ Val(traffic'.sent).data = <<text>>

\* the request of the step carries a native reference to the element
CarriesNative(elem) ==
    /\ Val(traffic'.sent).dataType = "PCRDR_MSG_DATA_TYPE_JSON"
    /\ Val(traffic'.sent).data = <<"native", elem>>

\* a call of pcintr_rdr_send_dom_req sends nothing after its response
NoRequestOnAnswer ==
    (waiting # NULL /\ ReceiveStep
        /\ Val(waiting).call \in {"update_target", "pcintr_rdr_send_dom_req"})
    => ~SendStep

\* the steps C18 allows, as claimed
C18_StepPlain ==
    /\ Loaded /\ DocOpStep => OneDomRequest
    /\ \A src \in UpdateSrcs :
          Loaded /\ DisplaceAttrStep(src) =>
              OneDomRequest /\ UpdatesClassOfElem /\ CarriesPlain(src.text)
    /\ NoRequestOnAnswer

C18_StepByTransport ==
    /\ Loaded /\ DocOpStep => OneDomRequest
    /\ \A src \in UpdateSrcs :
          Loaded /\ DisplaceAttrStep(src) =>
              /\ OneDomRequest /\ UpdatesClassOfElem
              /\ IF inst.conn_to_rdr = Ref("CT_MOVE_BUFFER")
                 THEN CarriesNative("elem")
                 ELSE CarriesPlain(src.text)
    /\ NoRequestOnAnswer

NoPageOrDom == co.target_page_handle = 0 \/ co.target_dom_handle = 0

\* what pcintr_rdr_send_dom_req makes of every call without page or DOM
C37_State ==
    NoPageOrDom =>
        \A a \in DomArgs, ldc \in Ldcs :
            LET made == pcintr_rdr_send_dom_req(co, ldc, inst.conn_to_rdr, a)
            IN  made.req = NULL /\ made.err = NULL

C37_Step ==
    /\ DomSendStep => ~NoPageOrDom
    /\ /\ NoPageOrDom
       /\ client_op'.name = "pcintr_rdr_send_dom_req"
       /\ ~SendStep /\ ~ReceiveStep
       => /\ UNCHANGED <<traffic, waiting, last_error>>
          /\ client_op'.ret = "NULL"

\* C37: no request to the DOM is sent for a coroutine whose page handle or
\* DOM handle is zero: pcintr_rdr_send_dom_req then makes no request and
\* sets no error, so the call sends nothing, waits for nothing and leaves
\* the last error as it is.
C37_NoDomRequestBeforeLoad == []C37_State /\ [][C37_Step]_vars

\* a DOM request made between the attachment of the page and its load
C37_Witness ==
    /\ client_op.name = "pcintr_rdr_send_dom_req"
    /\ client_op.ret = "NULL"
    /\ co.target_page_handle # 0 /\ co.target_dom_handle = 0
    /\ traffic.sent # NULL
    /\ Val(traffic.sent).target # "PCRDR_MSG_TARGET_DOM"
    /\ waiting = NULL
    /\ last_error = "PURC_ERROR_OK"

(***************************************************************************)
(*                 UPDATE ELEMENT: ITS SOURCE ATTRIBUTES                   *)
(***************************************************************************)

MaxAttrs == 4               \* attributes of an <update> element
MaxChildren == 1            \* children of an <update> element

PCHVML_ATTRIBUTE_OPERATOR == "="
AttrOps == {PCHVML_ATTRIBUTE_OPERATOR, "+="}

\* the attributes an <update> element may carry: name, value, operator.
\* Only `with` may come with another operator than `=`.
UpdAttrs ==
    {[name |-> "on", val |-> [type |-> "string", text |-> "#x"],
      op |-> PCHVML_ATTRIBUTE_OPERATOR]}
    \cup {[name |-> "to", val |-> [type |-> "string", text |-> t],
           op |-> PCHVML_ATTRIBUTE_OPERATOR] : t \in {"displace", "append"}}
    \cup {[name |-> "with", val |-> v, op |-> o] :
            v \in {[type |-> "string", text |-> "V"],
                   [type |-> "number", text |-> "7"]},
            o \in AttrOps}
    \cup {[name |-> "from", val |-> v, op |-> PCHVML_ATTRIBUTE_OPERATOR] :
            v \in {[type |-> "string", text |-> "http://u"],
                   [type |-> "object", text |-> "{}"]}}

\* an element names each attribute at most once
DistinctNames(as) ==
    \A i, j \in 1..Len(as) : as[i].name = as[j].name => i = j
UpdAttrLists == {as \in SeqsUpTo(UpdAttrs, MaxAttrs) : DistinctNames(as)}

NodeTypes == {"PCVDOM_NODE_ELEMENT", "PCVDOM_NODE_CONTENT",
              "PCVDOM_NODE_COMMENT"}
UpdChildLists == SeqsUpTo(NodeTypes, MaxChildren)

\* PC_ASSERT(cond) in this build: "assert" aborts if cond is false;
\* "evaluate" computes cond and goes on; "skip" does not compute cond
UpdBuilds == {"assert", "evaluate", "skip"}

\* calloc'ed in after_pushed; with_op starts as PCHVML_ATTRIBUTE_OPERATOR
ctxt_for_update ==
    [curr |-> 0, on |-> NULL, to |-> NULL, from |-> NULL,
     from_result |-> NULL, with |-> NULL,
     with_op |-> PCHVML_ATTRIBUTE_OPERATOR, literal |-> NULL]

\* the outcome of processing an attribute: the return value, the error it
\* sets (NULL if none) and the context it leaves
AttrFailed(c, err) == [r |-> -1, err |-> Ref(err), c |-> c]
AttrDone(c) == [r |-> 0, err |-> NULL, c |-> c]

process_attr_on(c, val) ==
    IF c.on # NULL THEN AttrFailed(c, "PURC_ERROR_DUPLICATED")
    ELSE AttrDone([c EXCEPT !.on = Ref(val)])

process_attr_to(c, val) ==
    IF c.to # NULL THEN AttrFailed(c, "PURC_ERROR_DUPLICATED")
    ELSE IF val.type # "string"
    THEN AttrFailed(c, "PURC_ERROR_INVALID_VALUE")
    ELSE IF val.text # "displace" /\ c.with_op # PCHVML_ATTRIBUTE_OPERATOR
    THEN AttrFailed(c, "PURC_ERROR_INVALID_VALUE")
    ELSE AttrDone([c EXCEPT !.to = Ref(val)])

process_attr_with(c, val, op) ==
    IF c.with # NULL THEN AttrFailed(c, "PURC_ERROR_DUPLICATED")
    ELSE IF op # PCHVML_ATTRIBUTE_OPERATOR /\ c.to # NULL
            /\ Val(c.to).text # "displace"
    THEN AttrFailed(c, "PURC_ERROR_NOT_SUPPORTED")
    ELSE IF c.from # NULL /\ val.type # "string"
    THEN AttrFailed(c, "PURC_ERROR_INVALID_VALUE")
    ELSE IF c.from # NULL /\ op # PCHVML_ATTRIBUTE_OPERATOR
    THEN AttrFailed(c, "PURC_ERROR_INVALID_VALUE")
    ELSE AttrDone([c EXCEPT !.with = Ref(val), !.with_op = op])

\* (the checks that follow in process_attr_from need ctxt->with to be set,
\* and are never reached)
process_attr_from(c, val) ==
    IF c.from # NULL THEN AttrFailed(c, "PURC_ERROR_DUPLICATED")
    ELSE IF c.with # NULL THEN AttrFailed(c, "PURC_ERROR_NOT_SUPPORTED")
    ELSE AttrDone([c EXCEPT !.from = Ref(val)])

attr_found_val(c, attr) ==
    CASE attr.name = "with" -> process_attr_with(c, attr.val, attr.op)
      [] attr.name = "on" -> process_attr_on(c, attr.val)
      [] attr.name = "to" -> process_attr_to(c, attr.val)
      [] attr.name = "from" -> process_attr_from(c, attr.val)

\* pcintr_vdom_walk_attrs(frame, element, NULL, attr_found): the attributes
\* in the order the element gives them, up to the first that fails
RECURSIVE pcintr_vdom_walk_attrs(_, _, _)
pcintr_vdom_walk_attrs(c, as, i) ==
    IF i > Len(as) THEN AttrDone(c)
    ELSE LET found == attr_found_val(c, as[i])
         IN  IF found.r # 0 THEN found
             ELSE pcintr_vdom_walk_attrs(found.c, as, i + 1)

\* pcintr_load_from_uri(stack, uri): the value loaded, or NULL and the error
\* of the loader
pcintr_load_from_uri(loaded) ==
    IF loaded THEN [v |-> Ref([type |-> "object", text |-> "loaded"]),
                    err |-> NULL]
    ELSE [v |-> NULL, err |-> Ref("PURC_ERROR_NO_DATA")]

\* after_pushed: [pc, c, err] - where the element is afterwards ("pushed"
\* with its context, "failed" for a NULL return, "SIGABRT" for a failed
\* PC_ASSERT), and the error that is set
after_pushed(as, build, loaded) ==
    LET walked == pcintr_vdom_walk_attrs(ctxt_for_update, as, 1)
        c == walked.c
    IN  IF walked.r # 0
        THEN \* PC_ASSERT(r == 0); if (r) return NULL;
             [pc |-> IF build = "assert" THEN "SIGABRT" ELSE "failed",
              c |-> c, err |-> Val(walked.err)]
        ELSE \* purc_clr_error()
        IF c.on = NULL
        THEN IF build = "assert"
             THEN [pc |-> "SIGABRT", c |-> c, err |-> "PURC_ERROR_OK"]
             ELSE [pc |-> "failed", c |-> c,
                   err |-> "PURC_ERROR_ARGUMENT_MISSED"]
        ELSE IF c.from # NULL /\ Val(c.from).type = "string"
        THEN IF build = "assert"
             THEN \* PC_ASSERT(0): TODO: async load
                  [pc |-> "SIGABRT", c |-> c, err |-> "PURC_ERROR_OK"]
             ELSE \* get_source_by_from(&stack->co, frame, from, with)
                  LET got == pcintr_load_from_uri(loaded)
                  IN  IF got.v = NULL
                      THEN [pc |-> "failed", c |-> c, err |-> Val(got.err)]
                      ELSE [pc |-> "pushed",
                            c |-> [c EXCEPT !.from_result = got.v],
                            err |-> "PURC_ERROR_OK"]
        ELSE [pc |-> "pushed", c |-> c, err |-> "PURC_ERROR_OK"]

\* process(co, frame, src, with_eval): the update of the target, of which
\* only the outcome is kept: r, and an error if it fails
process(src, r) ==
    [r |-> r, src |-> Ref(src),
     err |-> IF r = 0 THEN NULL ELSE Ref("error of process")]

\* on_child_finished: [r, src, err]
on_child_finished(c, r_process) ==
    IF c.from # NULL /\ c.from_result # NULL
    THEN process("from_result", r_process)
    ELSE IF c.from = NULL /\ c.with # NULL
    THEN process("with", r_process)
    ELSE IF c.literal # NULL
    THEN process("literal", r_process)
    ELSE [r |-> -1, src |-> NULL, err |-> NULL]

\* select_child from `again:` to its return, short of on_child_finished:
\* [out, c, err]; out is "element" when the next child is an element,
\* "failed" when a child is not permitted, "finished" after the last child
RECURSIVE select_child(_, _)
select_child(c, children) ==
    LET curr == c.curr + 1
        c1 == [c EXCEPT !.curr = curr]
    IN  IF curr > Len(children)
        THEN [out |-> "finished", c |-> [c EXCEPT !.curr = 0], err |-> NULL]
        ELSE IF children[curr] = "PCVDOM_NODE_ELEMENT"
        THEN \* on_element
             IF c.from # NULL \/ c.with # NULL
             THEN [out |-> "failed", c |-> c1,
                   err |-> Ref("PURC_ERROR_INVALID_VALUE")]
             ELSE [out |-> "element", c |-> c1, err |-> NULL]
        ELSE IF children[curr] = "PCVDOM_NODE_CONTENT"
        THEN \* on_content
             IF c.from # NULL \/ c.with # NULL
             THEN [out |-> "failed", c |-> c1,
                   err |-> Ref("PURC_ERROR_INVALID_VALUE")]
             ELSE select_child(
                      [c1 EXCEPT !.literal =
                           Ref([type |-> "string", text |-> "content"])],
                      children)
        ELSE \* on_comment
             select_child(c1, children)

UpdStart ==
    /\ upd_element \in [attrs : UpdAttrLists, children : UpdChildLists]
    /\ upd_build \in UpdBuilds
    /\ upd_ctxt = NULL
    /\ upd_pc = "start"
    /\ upd_error = "PURC_ERROR_OK"
    /\ upd_src = NULL

\* the element is pushed: after_pushed
UpdAfterPushed(loaded) ==
    /\ upd_pc = "start"
    /\ LET did == after_pushed(upd_element.attrs, upd_build, loaded)
       IN  /\ upd_pc' = did.pc
           /\ upd_ctxt' = Ref(did.c)
           /\ upd_error' = did.err
    /\ UNCHANGED <<upd_element, upd_build, upd_src>>
    /\ UNCHANGED NotUpd

\* select_child: first after the element is pushed, then each time a child
\* element has been run
UpdSelectChild(r_process) ==
    /\ upd_pc \in {"pushed", "child"}
    /\ LET sel == select_child(Val(upd_ctxt), upd_element.children)
       IN  IF sel.out = "finished"
           THEN \* purc_clr_error();
                \* PC_ASSERT(0 == on_child_finished(co, frame));
                IF upd_build = "skip"
                THEN /\ upd_pc' = "done"
                     /\ upd_ctxt' = Ref(sel.c)
                     /\ upd_error' = "PURC_ERROR_OK"
                     /\ UNCHANGED upd_src
                ELSE LET fin == on_child_finished(sel.c, r_process)
                     IN  /\ upd_pc' = IF fin.r # 0 /\ upd_build = "assert"
                                      THEN "SIGABRT" ELSE "done"
                         /\ upd_ctxt' = Ref(sel.c)
                         /\ upd_error' = IF fin.err = NULL
                                         THEN "PURC_ERROR_OK"
                                         ELSE Val(fin.err)
                         /\ upd_src' = fin.src
           ELSE /\ upd_pc' = IF sel.out = "element" THEN "child"
                             ELSE "failed"
                /\ upd_ctxt' = Ref(sel.c)
                /\ upd_error' = IF sel.err = NULL THEN upd_error
                                ELSE Val(sel.err)
                /\ UNCHANGED upd_src
    /\ UNCHANGED <<upd_element, upd_build>>
    /\ UNCHANGED NotUpd

UpdNext ==
    \/ \E loaded \in BOOLEAN : UpdAfterPushed(loaded)
    \/ \E r_process \in {0, -1} : UpdSelectChild(r_process)

\* ---- properties of the update element ----

\* the element gives the attribute `name`
Gives(name) ==
    \E i \in 1..Len(upd_element.attrs) : upd_element.attrs[i].name = name

\* the element has a content child
HasContent ==
    \E i \in 1..Len(upd_element.children) :
        upd_element.children[i] = "PCVDOM_NODE_CONTENT"

\* the element is through: it has run, has been given up, or the process
\* has been aborted
UpdEnded == upd_pc \in {"done", "failed", "SIGABRT"}

\* the element has been rejected with an error
UpdRejected ==
    upd_pc \in {"failed", "SIGABRT"} /\ upd_error # "PURC_ERROR_OK"

\* C19 (as claimed): an update element (with its target `on`) is accepted
\* only when exactly one of `with` and `from` supplies its source; an
\* element that gives both, in either order, is rejected with an error, and
\* so is an element that gives neither.
C19_ExactlyOneSource ==
    Gives("on") =>
        /\ (Gives("with") /\ Gives("from") /\ upd_pc # "start")
              => UpdRejected
        /\ (~Gives("with") /\ ~Gives("from") /\ UpdEnded) => UpdRejected

\* C20 (as claimed): an update element with no `with`, no `from` and no
\* content ends with the error invalid-value raised.
C20_NoSourceInvalidValue ==
    (~Gives("with") /\ ~Gives("from") /\ ~HasContent /\ Gives("on")
        /\ UpdEnded)
    => upd_error = "PURC_ERROR_INVALID_VALUE"

\* every attribute the element gives is accepted by the attribute walk
AttrsAccepted ==
    pcintr_vdom_walk_attrs(ctxt_for_update, upd_element.attrs, 1).r = 0

\* C21 (as claimed): an update element that lacks the attribute `on` fails
\* in after_pushed, which sets the error argument-missed and returns null.
C21_MissingOnArgumentMissed ==
    (~Gives("on") /\ AttrsAccepted /\ upd_pc # "start") =>
        /\ upd_pc = "failed"
        /\ upd_error = "PURC_ERROR_ARGUMENT_MISSED"

(***************************************************************************)
(*             UPDATE ELEMENT: THE OPERATIONS ON ITS TARGET                *)
(***************************************************************************)

MaxApplies == 2             \* updates applied to one target in a run

\* Variants are kept small: a scalar is a number 1 or 2, an object maps the
\* keys k1, k2 to a number (0: the key is absent), an array is a sequence
\* and a set is a set of numbers.  A container used as a member is known
\* by its number n.
UptKeys == {"k1", "k2"}
UptObjects == [UptKeys -> {0, 1}]
NoObject == [k \in UptKeys |-> 0]
NoAttrs == [a \in {"class"} |-> ""]

\* the value `src` of an update
UptSrcs ==
    {[type |-> "number", n |-> 1, text |-> "1", obj |-> NoObject,
      items |-> <<>>],
     [type |-> "string", n |-> 2, text |-> "V", obj |-> NoObject,
      items |-> <<>>],
     [type |-> "array", n |-> 3, text |-> "[1,2]", obj |-> NoObject,
      items |-> <<1, 2>>],
     [type |-> "object", n |-> 4, text |-> "{k1:1}",
      obj |-> [k \in UptKeys |-> IF k = "k1" THEN 1 ELSE 0],
      items |-> <<>>]}

\* the target `on` of an update
UptTargets ==
    {[kind |-> "PURC_VARIANT_TYPE_OBJECT", obj |-> o, arr |-> <<>>,
      set |-> {}, attrs |-> NoAttrs] : o \in UptObjects}
    \cup {[kind |-> "PURC_VARIANT_TYPE_ARRAY", obj |-> NoObject, arr |-> a,
           set |-> {}, attrs |-> NoAttrs] : a \in {<<>>, <<1>>}}
    \cup {[kind |-> "PURC_VARIANT_TYPE_SET", obj |-> NoObject, arr |-> <<>>,
           set |-> s, attrs |-> NoAttrs] : s \in {{}, {1}}}
    \cup {[kind |-> "PURC_VARIANT_TYPE_NATIVE", obj |-> NoObject,
           arr |-> <<>>, set |-> {}, attrs |-> a] :
             a \in {NoAttrs, [b \in {"class"} |-> "old"]}}

UptTos == {NULL, Ref("displace"), Ref("merge"), Ref("append"), Ref("unite"),
           Ref("overwrite")}
\* `at` is given for objects and elements only
UptAts(kind) ==
    IF kind = "PURC_VARIANT_TYPE_OBJECT" THEN {NULL, Ref(""), Ref(".k1")}
    ELSE IF kind = "PURC_VARIANT_TYPE_NATIVE" THEN {Ref("attr.class")}
    ELSE {NULL}

\* the outcome of an update of the target t: the return value, the error
\* set (NULL if none), the target afterwards, and how the process ends if
\* it does ("" if it goes on)
UptDone(t) == [r |-> 0, err |-> NULL, t |-> t, sig |-> ""]
UptFailed(t, err) == [r |-> -1, err |-> err, t |-> t, sig |-> ""]
\* PC_ASSERT(0); return -1;
UptAssert0(t, err, build) ==
    [r |-> -1, err |-> err, t |-> t,
     sig |-> IF build = "assert" THEN "SIGABRT" ELSE ""]

\* pcintr_attribute_get_op(op): the combinator of the operator of `with`,
\* applied to the value there is and the new value
with_eval(op, o, n) == IF op = PCHVML_ATTRIBUTE_OPERATOR THEN n ELSE o + n

\* purc_variant_object_merge_another(on, src, true)
purc_variant_object_merge_another(o, src) ==
    [k \in UptKeys |-> IF src.obj[k] # 0 THEN src.obj[k] ELSE o[k]]

merge_object(t, at, src, build) ==
    IF at = NULL \/ Val(at) = ""
    THEN IF src.type # "object"
         THEN UptFailed(t, Ref("PURC_ERROR_INVALID_VALUE"))
         ELSE UptDone([t EXCEPT
                         !.obj = purc_variant_object_merge_another(@, src)])
    ELSE UptAssert0(t, NULL, build)

\* displace_object that always combines the old value with the new one
displace_object_add(t, at, src, op, build) ==
    IF at # NULL /\ Val(at) = ".k1"
    THEN UptDone([t EXCEPT !.obj["k1"] = @ + src.n])
    ELSE UptAssert0(t, NULL, build)
displace_object(t, at, src, op, build) ==
    IF at # NULL /\ Val(at) = ".k1"
    THEN IF t.obj["k1"] = 0
         THEN \* PC_ASSERT(o != PURC_VARIANT_INVALID)
              IF build = "assert"
              THEN [r |-> -1, err |-> NULL, t |-> t, sig |-> "SIGABRT"]
              ELSE IF op = PCHVML_ATTRIBUTE_OPERATOR
              THEN UptDone([t EXCEPT !.obj["k1"] = src.n])
              ELSE UptFailed(t, Ref("PURC_ERROR_INVALID_VALUE"))
         ELSE UptDone([t EXCEPT !.obj["k1"] = with_eval(op, @, src.n)])
    ELSE UptAssert0(t, NULL, build)

update_object(t, at, to, src, op, build) ==
    LET s_to == IF to # NULL THEN Val(to) ELSE "displace"
    IN  IF s_to = "merge" THEN merge_object(t, at, src, build)
        ELSE IF s_to = "displace" THEN displace_object(t, at, src, op, build)
        ELSE UptAssert0(t, NULL, build)

\* update_array; without `to` the operation name is a null pointer
update_array(t, to, src, build) ==
    IF to = NULL
    THEN [r |-> -1, err |-> NULL, t |-> t,
          sig |-> IF build = "assert" THEN "SIGABRT" ELSE "SIGSEGV"]
    ELSE IF Val(to) = "append"
    THEN UptDone([t EXCEPT !.arr = Append(@, src.n)])
    ELSE UptAssert0(t, Ref("PURC_ERROR_NOT_SUPPORTED"), build)

\* the members of a container value
MembersOf(src) == {src.items[i] : i \in 1..Len(src.items)}

\* update_set; purc_variant_container_displace, purc_variant_set_unite and
\* purc_variant_set_overwrite take the members from an array
update_set(t, to, src, build) ==
    IF to = NULL
    THEN [r |-> -1, err |-> NULL, t |-> t,
          sig |-> IF build = "assert" THEN "SIGABRT" ELSE "SIGSEGV"]
    ELSE IF Val(to) = "displace"
    THEN IF src.type # "array"
         THEN UptFailed(t, Ref("PURC_ERROR_INVALID_VALUE"))
         ELSE UptDone([t EXCEPT !.set = MembersOf(src)])
    ELSE IF Val(to) \in {"unite", "overwrite"}
    THEN IF src.type # "array"
         THEN UptFailed(t, Ref("PURC_ERROR_INVALID_VALUE"))
         ELSE UptDone([t EXCEPT !.set = @ \cup MembersOf(src)])
    ELSE UptAssert0(t, NULL, build)

\* update_elements on one element, for an `at` of the form attr.NAME
update_elements(t, to, src, build) ==
    LET did == update_target("class", to, src)
    IN  IF did.set = NULL THEN UptAssert0(t, NULL, build)
        ELSE UptDone([t EXCEPT !.attrs[Val(did.set).name] =
                                  Val(did.set).value])

\* process(co, frame, src, with_eval): the update by the kind of `on`
process_on(t, at, to, src, op, build) ==
    CASE t.kind = "PURC_VARIANT_TYPE_NATIVE" ->
             update_elements(t, to, src, build)
      [] t.kind = "PURC_VARIANT_TYPE_OBJECT" ->
             update_object(t, at, to, src, op, build)
      [] t.kind = "PURC_VARIANT_TYPE_ARRAY" ->
             update_array(t, to, src, build)
      [] t.kind = "PURC_VARIANT_TYPE_SET" ->
             update_set(t, to, src, build)

UptStart ==
    /\ upt_target \in UptTargets
    /\ upt_build \in {"assert", "release"}
    /\ upt_sig = ""
    /\ upt_op = [n |-> 0, to |-> NULL, at |-> NULL, src |-> 0,
                 op |-> PCHVML_ATTRIBUTE_OPERATOR, r |-> 0, err |-> NULL]

\* one <update on=target at=... to=... with=src> is run to its end
UptApply(to, at, src, op) ==
    /\ upt_sig = "" /\ upt_op.n < MaxApplies
    /\ at \in UptAts(upt_target.kind)
    /\ LET did == process_on(upt_target, at, to, src, op, upt_build)
       IN  /\ upt_target' = did.t
           /\ upt_sig' = did.sig
           /\ upt_op' = [n |-> upt_op.n + 1, to |-> to, at |-> at,
                         src |-> src.n, op |-> op, r |-> did.r,
                         err |-> did.err]
    /\ UNCHANGED upt_build
    /\ UNCHANGED NotUpt

UptNext ==
    \E to \in UptTos, at \in {NULL, Ref(""), Ref(".k1"), Ref("attr.class")},
       src \in UptSrcs, op \in AttrOps : UptApply(to, at, src, op)

\* ---- properties of the operations on the target ----

\* the name of the operation of the last update
LastTo == IF upt_op.to # NULL THEN Val(upt_op.to) ELSE "displace"

\* the last update is one of the operations listed for the kind of its
\* target, with a source of the fitting type: merge of an object into an
\* object, displace of a key that is there, displace of the whole object by
\* an object, append to and displace of an array, displace, unite and
\* overwrite of a set by an array
ListedOp ==
    \/ /\ upt_target.kind = "PURC_VARIANT_TYPE_OBJECT"
       /\ \/ upt_op.to = Ref("merge") /\ upt_op.at \in {NULL, Ref("")}
             /\ upt_op.src = 4
          \/ LastTo = "displace" /\ upt_op.at = Ref(".k1")
             /\ upt_target.obj["k1"] # 0
             /\ upt_op.op = PCHVML_ATTRIBUTE_OPERATOR
          \/ LastTo = "displace" /\ upt_op.at = Ref("") /\ upt_op.src = 4
    \/ /\ upt_target.kind = "PURC_VARIANT_TYPE_ARRAY"
       /\ upt_op.to \in {Ref("append"), Ref("displace")}
    \/ /\ upt_target.kind = "PURC_VARIANT_TYPE_SET"
       /\ upt_op.to \in {Ref("displace"), Ref("unite"), Ref("overwrite")}
       /\ upt_op.src = 3

\* C22 (as claimed): update carries out every operation listed for the kind
\* of its target and raises no error for it: merge and displace on objects
\* (of a key, and of the whole object with at=""), append and displace on
\* arrays, displace, unite and overwrite on sets.
C22_ListedOpsSucceed ==
    (upt_op.n > 0 /\ ListedOp) =>
        upt_op.r = 0 /\ upt_op.err = NULL /\ upt_sig = ""

\* the step applies once more, with success, the update that was applied
\* with success just before it: the same `to`, `at`, source and operator
SameUpdateAgain ==
    /\ upt_op.n >= 1 /\ upt_op'.n = upt_op.n + 1
    /\ upt_op.r = 0 /\ upt_op'.r = 0
    /\ upt_op'.to = upt_op.to /\ upt_op'.at = upt_op.at
    /\ upt_op'.src = upt_op.src /\ upt_op'.op = upt_op.op

\* the last update is a displace with the plain operator, of a key of an
\* object or of an attribute of an element
DisplacedWith ==
    /\ LastTo = "displace" /\ upt_op.op = PCHVML_ATTRIBUTE_OPERATOR
    /\ \/ upt_target.kind = "PURC_VARIANT_TYPE_OBJECT"
          /\ upt_op.at = Ref(".k1")
       \/ upt_target.kind = "PURC_VARIANT_TYPE_NATIVE"
          /\ upt_op.at = Ref("attr.class")

\* the steps C23 allows
C23_Step == (DisplacedWith /\ SameUpdateAgain) => upt_target' = upt_target

\* C23: applying update to=displace with=X a second time with the same X
\* to the same key of an object, or to the same attribute of an element,
\* leaves the target as the first application left it.
C23_DisplaceIdempotent == [][C23_Step]_vars

\* the key k1 of an object has been displaced twice with the string V
C23_Witness ==
    /\ upt_op.n = 2 /\ upt_op.r = 0 /\ DisplacedWith
    /\ upt_target.kind = "PURC_VARIANT_TYPE_OBJECT"
    /\ upt_op.src = 2 /\ upt_target.obj["k1"] = 2

(***************************************************************************)
(*        TEMPLATE ELEMENTS: archetype, error AND except                   *)
(*        (interpreter/elements/archetype.c, elements/error.c, except.c)   *)
(***************************************************************************)

MaxTplChildren == 2         \* child nodes of one template element

TplTags == {"archetype", "error", "except"}

\* the status codes a load completes with
RetCodes == {"200", "404", "RESP_CODE_USER_STOP"}

\* the elements run: an archetype gives `name` and `src` or not and stands
\* under <head> or not; error and except give `type` or not
TplElements ==
    LET kids == SeqsUpTo(NodeTypes, MaxTplChildren) IN
    [tag : {"archetype"}, name : {NULL, Ref("tpl")},
     src : {NULL, Ref("uri")}, type : {NULL}, under_head : BOOLEAN,
     children : kids]
    \cup
    [tag : {"error", "except"}, name : {NULL}, src : {NULL},
     type : {NULL, Ref("NoData")}, under_head : {FALSE}, children : kids]

\* calloc'ed in after_pushed, with the template made by pcintr_template_make;
\* `contents` counts the content nodes the template holds
ctxt_for_template ==
    [curr |-> 0, name |-> NULL, src |-> NULL, type |-> NULL,
     under_head |-> FALSE, contents |-> 0, ret_code |-> "", resp |-> FALSE]

\* the frame of the element, as pushed
TplFrame0 ==
    [next_step |-> "NEXT_STEP_AFTER_PUSHED", ctnt_var |-> NULL,
     error_templates |-> {}]

\* the value of a template holding n content nodes, and the value loaded
\* from a response
TemplateOf(n) == <<"template", n>>
LoadedValue == <<"json", 0>>

\* after_pushed of the three elements, after the attributes are walked:
\* archetype notes whether it stands under <head> and asks for `name`,
\* error takes "*" for a missing type, except keeps no attribute
archetype_after_pushed(e) ==
    LET c == [ctxt_for_template EXCEPT !.name = e.name, !.src = e.src,
                                       !.under_head = e.under_head]
    IN  IF c.name = NULL
        THEN [c |-> c, err |-> "PURC_ERROR_ARGUMENT_MISSED", by_src |-> FALSE]
        ELSE [c |-> c, err |-> "PURC_ERROR_OK", by_src |-> c.src # NULL]

error_after_pushed(e) ==
    [c |-> [ctxt_for_template EXCEPT
                !.type = IF e.type = NULL THEN Ref("*") ELSE e.type],
     err |-> "PURC_ERROR_OK", by_src |-> FALSE]

except_after_pushed(e) ==
    [c |-> ctxt_for_template, err |-> "PURC_ERROR_OK", by_src |-> FALSE]

\* on_content: archetype and except append the content to the template,
\* error sets the template to it
tpl_on_content(tag, c) ==
    IF tag = "error" THEN [c EXCEPT !.contents = 1]
    ELSE [c EXCEPT !.contents = @ + 1]

\* select_child of the three elements (the same code in the three files):
\* walks the children from ctxt->curr on. `out` is "finished" when the
\* children are through, "null" when NULL is returned without finishing,
\* "SIGABRT" when a PC_ASSERT(0) has ended the process
RECURSIVE tpl_select_child(_, _, _, _)
tpl_select_child(tag, c, children, build) ==
    LET curr == c.curr + 1
        c1 == [c EXCEPT !.curr = curr]
    IN  IF curr > Len(children)
        THEN [c |-> c1, out |-> "finished"]
        ELSE IF children[curr] = "PCVDOM_NODE_CONTENT"
        THEN tpl_select_child(tag, tpl_on_content(tag, c1), children, build)
        ELSE IF build = "assert"
        THEN \* PC_ASSERT(0); // Not implemented yet
             [c |-> c1, out |-> "SIGABRT"]
        ELSE IF children[curr] = "PCVDOM_NODE_COMMENT"
        THEN \* goto again
             tpl_select_child(tag, c1, children, build)
        ELSE \* break; PC_ASSERT(0); return NULL
             [c |-> c1, out |-> "null"]

\* on_child_finished of archetype: the template becomes the content
\* variable of the frame and is bound under `name` in the scope of the
\* parent element
archetype_on_child_finished(c, fr, scope) ==
    LET fr1 == [fr EXCEPT !.ctnt_var = Ref(TemplateOf(c.contents))] IN
    IF c.name = NULL
    THEN [r |-> -1, fr |-> fr1, scope |-> scope]
    ELSE [r |-> 0, fr |-> fr1,
          scope |-> scope \cup {[scope |-> "parent", name |-> Val(c.name),
                                 value |-> TemplateOf(c.contents)]}]

\* on_child_finished of error: pcintr_bind_template puts the template into
\* the error templates of the frame under the type
error_on_child_finished(c, fr, scope) ==
    [r |-> 0,
     fr |-> [fr EXCEPT !.error_templates =
                 @ \cup {[type |-> Val(c.type),
                          contents |-> TemplateOf(c.contents)]}],
     scope |-> scope]

\* on_child_finished of except: returns 0 (the binding is compiled out)
except_on_child_finished(c, fr, scope) ==
    [r |-> 0, fr |-> fr, scope |-> scope]

\* a continuation that takes every end of the load for a stop by the user
on_sync_continuation_silent(c, fr, scope, build) ==
    [c |-> [c EXCEPT !.resp = FALSE],
     fr |-> [fr EXCEPT !.next_step = "NEXT_STEP_ON_POPPING"],
     scope |-> scope, err |-> NULL, out |-> "resumed"]

\* on_sync_continuation of archetype, run when the coroutine is resumed
\* after the load
on_sync_continuation(c, fr, scope, build) ==
    LET popping == [fr EXCEPT !.next_step = "NEXT_STEP_ON_POPPING"]
        c1 == [c EXCEPT !.resp = FALSE]
    IN  IF c.ret_code = "RESP_CODE_USER_STOP"
        THEN [c |-> c1, fr |-> popping, scope |-> scope, err |-> NULL,
              out |-> "resumed"]
        ELSE IF ~c.resp \/ c.ret_code # "200"
        THEN [c |-> c1, fr |-> popping, scope |-> scope,
              err |-> Ref("PURC_ERROR_NO_DATA"), out |-> "resumed"]
        ELSE IF build = "assert"
        THEN \* PC_ASSERT(0); // Not implemented yet
             [c |-> c, fr |-> fr, scope |-> scope, err |-> NULL,
              out |-> "SIGABRT"]
        ELSE \* s_name is the string of ctxt->src
             [c |-> c1, fr |-> popping,
              scope |-> scope \cup
                  {[scope |-> IF c.under_head THEN "document" ELSE "parent",
                    name |-> Val(c.src), value |-> LoadedValue]},
              err |-> NULL, out |-> "resumed"]

TplStart ==
    /\ tpl_element \in TplElements
    /\ tpl_build \in UpdBuilds
    /\ tpl_ctxt = NULL
    /\ tpl_frame = TplFrame0
    /\ tpl_scope = {}
    /\ tpl_error = "PURC_ERROR_OK"
    /\ tpl_pc = "start"
    /\ tpl_abort = ""

\* the element is pushed: after_pushed. With `src`, process_by_src asks for
\* the load and yields the frame; `requested` is whether the request could
\* be made
TplAfterPushed(requested) ==
    /\ tpl_pc = "start"
    /\ LET e == tpl_element
           did == CASE e.tag = "archetype" -> archetype_after_pushed(e)
                    [] e.tag = "error" -> error_after_pushed(e)
                    [] OTHER -> except_after_pushed(e)
       IN  /\ tpl_ctxt' = Ref(did.c)
           /\ IF did.err # "PURC_ERROR_OK"
              THEN /\ tpl_pc' = "failed"
                   /\ tpl_error' = did.err
                   /\ tpl_abort' = ""
              ELSE IF ~did.by_src
              THEN /\ tpl_pc' = "select_child"
                   /\ tpl_error' = "PURC_ERROR_OK"
                   /\ tpl_abort' = ""
              ELSE IF requested
              THEN /\ tpl_pc' = "yielded"
                   /\ tpl_error' = "PURC_ERROR_OK"
                   /\ tpl_abort' = ""
              ELSE \* PC_ASSERT(purc_get_last_error() == 0)
                   /\ tpl_pc' = IF tpl_build = "assert" THEN "SIGABRT"
                                ELSE "failed"
                   /\ tpl_error' = "PURC_ERROR_OUT_OF_MEMORY"
                   /\ tpl_abort' = IF tpl_build = "assert"
                                   THEN "after_pushed" ELSE ""
    /\ UNCHANGED <<tpl_element, tpl_build, tpl_frame, tpl_scope>>
    /\ UNCHANGED NotTpl

\* on_sync_complete: the fetcher reports the end of the load; the status
\* and the response go to the context and the coroutine is resumed
TplSyncComplete(ret_code, resp) ==
    /\ tpl_pc = "yielded"
    /\ tpl_ctxt' = Ref([Val(tpl_ctxt) EXCEPT !.ret_code = ret_code,
                                             !.resp = resp])
    /\ tpl_pc' = "resumed"
    /\ UNCHANGED <<tpl_element, tpl_build, tpl_frame, tpl_scope, tpl_error,
                   tpl_abort>>
    /\ UNCHANGED NotTpl

\* the resumed coroutine runs on_sync_continuation
TplSyncContinuation ==
    /\ tpl_pc = "resumed"
    /\ LET did == on_sync_continuation(Val(tpl_ctxt), tpl_frame, tpl_scope,
                                       tpl_build)
       IN  /\ tpl_ctxt' = Ref(did.c)
           /\ tpl_frame' = did.fr
           /\ tpl_scope' = did.scope
           /\ tpl_error' = IF did.err = NULL THEN tpl_error ELSE Val(did.err)
           /\ tpl_pc' = IF did.out = "SIGABRT" THEN "SIGABRT"
                        ELSE "on_popping"
           /\ tpl_abort' = IF did.out = "SIGABRT" THEN "on_sync_continuation"
                           ELSE ""
    /\ UNCHANGED <<tpl_element, tpl_build>>
    /\ UNCHANGED NotTpl

\* select_child: walks the children; when they are through it clears the
\* error and calls on_child_finished. archetype and except make the call
\* inside PC_ASSERT, error makes it before
TplSelectChild ==
    /\ tpl_pc = "select_child"
    /\ LET tag == tpl_element.tag
           sel == tpl_select_child(tag, Val(tpl_ctxt), tpl_element.children,
                                   tpl_build)
           fin == CASE tag = "archetype" ->
                         archetype_on_child_finished(sel.c, tpl_frame,
                                                     tpl_scope)
                    [] tag = "error" ->
                         error_on_child_finished(sel.c, tpl_frame, tpl_scope)
                    [] OTHER ->
                         except_on_child_finished(sel.c, tpl_frame, tpl_scope)
           called == tag = "error" \/ tpl_build # "skip"
       IN  /\ tpl_ctxt' = Ref(sel.c)
           /\ IF sel.out = "SIGABRT"
              THEN /\ tpl_pc' = "SIGABRT"
                   /\ tpl_abort' = "select_child"
                   /\ UNCHANGED <<tpl_frame, tpl_scope, tpl_error>>
              ELSE IF sel.out = "null"
              THEN /\ tpl_pc' = "on_popping"
                   /\ UNCHANGED <<tpl_frame, tpl_scope, tpl_error,
                                  tpl_abort>>
              ELSE /\ tpl_error' = "PURC_ERROR_OK"
                   /\ tpl_frame' = IF called THEN fin.fr ELSE tpl_frame
                   /\ tpl_scope' = IF called THEN fin.scope ELSE tpl_scope
                   /\ tpl_pc' = IF called /\ fin.r # 0
                                   /\ tpl_build = "assert"
                                THEN "SIGABRT" ELSE "on_popping"
                   /\ tpl_abort' = IF called /\ fin.r # 0
                                      /\ tpl_build = "assert"
                                   THEN "select_child" ELSE ""
    /\ UNCHANGED <<tpl_element, tpl_build>>
    /\ UNCHANGED NotTpl

\* on_popping: the context is destroyed and the frame is popped
TplOnPopping ==
    /\ tpl_pc = "on_popping"
    /\ tpl_ctxt' = NULL
    /\ tpl_pc' = "done"
    /\ UNCHANGED <<tpl_element, tpl_build, tpl_frame, tpl_scope, tpl_error,
                   tpl_abort>>
    /\ UNCHANGED NotTpl

TplNext ==
    \/ \E requested \in BOOLEAN : TplAfterPushed(requested)
    \/ \E ret_code \in RetCodes, resp \in BOOLEAN :
           TplSyncComplete(ret_code, resp)
    \/ TplSyncContinuation
    \/ TplSelectChild
    \/ TplOnPopping

\* ---- properties of the template elements ----

\* every child of the element is a content node (there is at least one)
OnlyContent ==
    /\ tpl_element.children # <<>>
    /\ \A i \in 1..Len(tpl_element.children) :
           tpl_element.children[i] = "PCVDOM_NODE_CONTENT"

\* the archetype took its content inline and has run through its children
InlineGiven ==
    /\ tpl_element.src = NULL /\ OnlyContent
    /\ tpl_pc \in {"on_popping", "done"}

\* the archetype asked for its `src` and the load completed with a
\* response of status 200, which the continuation has handled
SrcLoaded ==
    /\ tpl_element.src # NULL /\ tpl_ctxt # NULL
    /\ Val(tpl_ctxt).ret_code = "200"
    /\ \/ tpl_pc = "on_popping" /\ tpl_error = "PURC_ERROR_OK"
       \/ tpl_pc = "SIGABRT" /\ tpl_abort = "on_sync_continuation"

\* C24 (as claimed): the content of an archetype, given inline or loaded
\* through `src`, is bound under the `name` of the archetype, in the scope
\* of the enclosing element, or in the scope of the document when the
\* archetype stands under <head>.
C24_BoundUnderName ==
    (/\ tpl_element.tag = "archetype" /\ tpl_element.name # NULL
     /\ (InlineGiven \/ SrcLoaded)) =>
        \E b \in tpl_scope :
            /\ b.name = Val(tpl_element.name)
            /\ b.scope = IF tpl_element.under_head THEN "document"
                         ELSE "parent"

\* the load has completed with a failure: no response, or a status other
\* than 200
LoadFailed == ~Val(tpl_ctxt).resp \/ Val(tpl_ctxt).ret_code # "200"

\* the load has been stopped by the user
UserStopped == Val(tpl_ctxt).ret_code = "RESP_CODE_USER_STOP"

\* the continuation raises no-data, binds nothing and lets the frame go on
\* to be popped
RaisesNoData ==
    /\ tpl_error' = "PURC_ERROR_NO_DATA"
    /\ tpl_scope' = {}
    /\ tpl_frame'.next_step \in {"NEXT_STEP_ON_POPPING",
                                 "NEXT_STEP_SELECT_CHILD"}
    /\ tpl_pc' = "on_popping"

\* the step is the continuation of the resumed coroutine
ContinuationStep == tpl_pc = "resumed" /\ tpl_pc' # "resumed"

C25_StepAsClaimed == (ContinuationStep /\ LoadFailed) => RaisesNoData

\* C25 (as claimed): when the load of the `src` of an archetype completes
\* with no response or with a status other than 200, the continuation
\* raises no-data, makes no binding and resumes the frame.
C25_FailureRaisesNoData == [][C25_StepAsClaimed]_vars

C25_Step == (ContinuationStep /\ LoadFailed /\ ~UserStopped) => RaisesNoData

\* C25: when the load of the `src` of an archetype completes with no
\* response or with a status other than 200, and the load was not stopped
\* by the user, the continuation raises no-data, makes no binding and
\* resumes the frame to be popped with the error set.
C25_FailureRaisesNoDataUnlessStopped == [][C25_Step]_vars

\* a load has ended with status 404 and the continuation has raised no-data
C25_Witness ==
    /\ tpl_pc = "on_popping" /\ tpl_error = "PURC_ERROR_NO_DATA"
    /\ tpl_ctxt # NULL /\ Val(tpl_ctxt).ret_code = "404"
    /\ tpl_scope = {}

\* C26 (as claimed): an <error> and an <except> element both register
\* their template content in the frame under their type, "*" standing for
\* a missing type, where the handling of a raised error finds it.
C26_RegisteredUnderType ==
    (/\ tpl_element.tag \in {"error", "except"} /\ OnlyContent
     /\ tpl_pc \in {"on_popping", "done"}) =>
        \E t \in tpl_frame.error_templates :
            t.type = IF tpl_element.type = NULL THEN "*"
                     ELSE Val(tpl_element.type)

\* C27 (as claimed): select_child never ends the coroutine by an
\* assertion, whatever the kind of the child: content is consumed, a
\* comment is skipped, another child that is no element is reported as
\* not-implemented.
C27_SelectChildNeverAborts == tpl_abort # "select_child"

(***************************************************************************)
(*        DOCUMENTS: THE OPERATIONS OF A DOCUMENT KIND                     *)
(*        (document/document.c)                                            *)
(***************************************************************************)

MaxDocCalls == 3            \* operations invoked in one run

\* the document types and the ones doc_types gives an ops table for
DocTypes == {"PCDOC_K_TYPE_VOID", "PCDOC_K_TYPE_PLAIN", "PCDOC_K_TYPE_HTML",
             "PCDOC_K_TYPE_XML", "PCDOC_K_TYPE_XGML"}
doc_types == [t \in DocTypes |->
                 t \in {"PCDOC_K_TYPE_VOID", "PCDOC_K_TYPE_HTML"}]

\* the members of purc_document_ops that document.c tests before it calls
\* them: a document kind may leave each of them NULL
OptionalOps == {"set_attribute", "get_attribute", "new_data_content",
                "get_attr_info", "set_user_data"}

\* the outcome of one call: what it returns, the error it sets (NULL for
\* none), and whether it found the operation of the document kind missing
DocCall(name, missing, ret, err) ==
    [name |-> name, missing |-> missing, ret |-> ret, err |-> err]

\* purc_document_new(type)
purc_document_new(type) ==
    IF ~doc_types[type]
    THEN DocCall("purc_document_new", TRUE, "NULL",
                 Ref("PURC_ERROR_NOT_IMPLEMENTED"))
    ELSE DocCall("purc_document_new", FALSE, "doc", NULL)

\* pcdoc_element_set_data_content(doc, elem, op, data)
pcdoc_element_set_data_content(ops) ==
    IF "new_data_content" \in ops
    THEN DocCall("pcdoc_element_set_data_content", FALSE, "node", NULL)
    ELSE DocCall("pcdoc_element_set_data_content", TRUE, "NULL",
                 Ref("PURC_ERROR_NOT_SUPPORTED"))

\* pcdoc_element_set_attribute(doc, elem, op, name, val, len)
pcdoc_element_set_attribute(ops) ==
    IF "set_attribute" \in ops
    THEN DocCall("pcdoc_element_set_attribute", FALSE, "0", NULL)
    ELSE DocCall("pcdoc_element_set_attribute", TRUE, "0", NULL)

\* pcdoc_element_get_attribute(doc, elem, name, val, len): the name must be
\* a valid identifier; without the operation the value is ""
pcdoc_element_get_attribute(ops, valid_name) ==
    IF ~valid_name
    THEN DocCall("pcdoc_element_get_attribute", FALSE, "-1", NULL)
    ELSE IF "get_attribute" \in ops
    THEN DocCall("pcdoc_element_get_attribute", FALSE, "0", NULL)
    ELSE DocCall("pcdoc_element_get_attribute", TRUE, "0", NULL)

\* pcdoc_attr_get_info(doc, attr, ...)
pcdoc_attr_get_info(ops) ==
    IF "get_attr_info" \in ops
    THEN DocCall("pcdoc_attr_get_info", FALSE, "0", NULL)
    ELSE DocCall("pcdoc_attr_get_info", TRUE, "-1", NULL)

\* pcdoc_node_set_user_data(doc, node, user_data)
pcdoc_node_set_user_data(ops) ==
    IF "set_user_data" \in ops
    THEN DocCall("pcdoc_node_set_user_data", FALSE, "0", NULL)
    ELSE DocCall("pcdoc_node_set_user_data", TRUE, "-1", NULL)

\* no document yet; the ops table of the kinds that have one is any table
\* with the operations document.c always calls
PdocStart ==
    /\ pdoc_ops \in SUBSET OptionalOps
    /\ pdoc_doc = NULL
    /\ pdoc_error = "PURC_ERROR_OK"
    /\ pdoc_call = [n |-> 0, did |-> DocCall("idle", FALSE, "", NULL)]

\* what every call leaves: its outcome, and the error if it has set one
PdocReturn(did) ==
    /\ pdoc_call.n < MaxDocCalls
    /\ pdoc_call' = [n |-> pdoc_call.n + 1, did |-> did]
    /\ pdoc_error' = IF did.err = NULL THEN pdoc_error ELSE Val(did.err)

PdocNew(type) ==
    /\ pdoc_doc = NULL
    /\ LET did == purc_document_new(type)
       IN  /\ PdocReturn(did)
           /\ pdoc_doc' = IF did.ret = "doc" THEN Ref(type) ELSE NULL
    /\ UNCHANGED pdoc_ops
    /\ UNCHANGED NotPdoc

PdocSetDataContent ==
    /\ pdoc_doc # NULL
    /\ PdocReturn(pcdoc_element_set_data_content(pdoc_ops))
    /\ UNCHANGED <<pdoc_ops, pdoc_doc>>
    /\ UNCHANGED NotPdoc

PdocSetAttribute ==
    /\ pdoc_doc # NULL
    /\ PdocReturn(pcdoc_element_set_attribute(pdoc_ops))
    /\ UNCHANGED <<pdoc_ops, pdoc_doc>>
    /\ UNCHANGED NotPdoc

PdocGetAttribute(valid_name) ==
    /\ pdoc_doc # NULL
    /\ PdocReturn(pcdoc_element_get_attribute(pdoc_ops, valid_name))
    /\ UNCHANGED <<pdoc_ops, pdoc_doc>>
    /\ UNCHANGED NotPdoc

PdocAttrGetInfo ==
    /\ pdoc_doc # NULL
    /\ PdocReturn(pcdoc_attr_get_info(pdoc_ops))
    /\ UNCHANGED <<pdoc_ops, pdoc_doc>>
    /\ UNCHANGED NotPdoc

PdocSetUserData ==
    /\ pdoc_doc # NULL
    /\ PdocReturn(pcdoc_node_set_user_data(pdoc_ops))
    /\ UNCHANGED <<pdoc_ops, pdoc_doc>>
    /\ UNCHANGED NotPdoc

PdocNext ==
    \/ \E type \in DocTypes : PdocNew(type)
    \/ PdocSetDataContent
    \/ PdocSetAttribute
    \/ \E valid_name \in BOOLEAN : PdocGetAttribute(valid_name)
    \/ PdocAttrGetInfo
    \/ PdocSetUserData

\* ---- properties of the document operations ----

\* C28 (as claimed): an operation the document kind does not implement
\* fails with the not-implemented error and a failure return value; it is
\* never reported as a success.
C28_MissingOpNotImplemented ==
    (pdoc_call.n > 0 /\ pdoc_call.did.missing) =>
        /\ pdoc_call.did.ret \in {"-1", "NULL"}
        /\ pdoc_call.did.err = Ref("PURC_ERROR_NOT_IMPLEMENTED")

(***************************************************************************)
(*                    HBDBUS STREAM: THE HANDSHAKE                         *)
(***************************************************************************)

\* the messages the model lets the stream receive
MaxMessages == 4

\* #define HBDBUS_PROTOCOL_NAME "HBDBUS"
HBDBUS_PROTOCOL_NAME == "HBDBUS"
\* #define HBDBUS_PROTOCOL_VERSION 200
HBDBUS_PROTOCOL_VERSION == 200
\* #define HBDBUS_MINIMAL_PROTOCOL_VERSION 200
HBDBUS_MINIMAL_PROTOCOL_VERSION == 200

ProtNames == {HBDBUS_PROTOCOL_NAME, "OTHER"}
ProtVers == {HBDBUS_MINIMAL_PROTOCOL_VERSION - 1,
             HBDBUS_MINIMAL_PROTOCOL_VERSION,
             HBDBUS_MINIMAL_PROTOCOL_VERSION + 1}

\* A message of Layer 0: its type, its length and what its payload parses
\* to: json is "bad" when the payload is no JSON object; packetType is
\* "none" when the object has no such member; ch_code, prot_name, prot_ver
\* and hosts are the members challengeCode, protocolName, protocolVersion
\* and serverHostName with reassignedHostName (prot_name "<N/A>" and
\* prot_ver 0 stand for the absent members); dispatch is how the dispatch
\* of a call, result or event packet ends.
BasePacket ==
    [type |-> "MT_TEXT", len |-> 1, json |-> "object", packetType |-> "auth",
     ch_code |-> TRUE, prot_name |-> HBDBUS_PROTOCOL_NAME,
     prot_ver |-> HBDBUS_PROTOCOL_VERSION, hosts |-> TRUE, dispatch |-> "ok"]

HbsMessages ==
    {[BasePacket EXCEPT !.type = "MT_BINARY"],
     [BasePacket EXCEPT !.len = 0],
     [BasePacket EXCEPT !.json = "bad"]}
    \cup {[BasePacket EXCEPT !.ch_code = c, !.prot_name = pn, !.prot_ver = pv] :
             c \in BOOLEAN, pn \in ProtNames \cup {"<N/A>"},
             pv \in ProtVers \cup {0}}
    \cup {[BasePacket EXCEPT !.packetType = "error", !.prot_ver = pv] :
             pv \in ProtVers}
    \cup {[BasePacket EXCEPT !.packetType = "authPassed", !.hosts = h] :
             h \in BOOLEAN}
    \cup {[BasePacket EXCEPT !.packetType = t, !.dispatch = d] :
             t \in {"call", "result", "event"}, d \in {"ok", "failed"}}
    \cup {[BasePacket EXCEPT !.packetType = t] :
             t \in {"none", "authFailed", "resultSent", "eventSent", "other"}}

\* how the sending of the auth-info ends
SendOutcomes == {"sent", "sign_failed", "too_small_buffer", "failed_write"}

\* what a step of the handshake yields: its return value, the error symbol
\* it has set (NULL: none) and whether the process has died in it
HbsRet(ret, errsym) == [ret |-> ret, errsym |-> errsym, died |-> FALSE]
HbsDied == [ret |-> 0, errsym |-> NULL, died |-> TRUE]

\* hbdbus_json_packet_to_object: the JSON packet type
hbdbus_json_packet_to_object(payload) ==
    IF payload.json # "object" THEN "JPT_BAD_JSON"
    ELSE CASE payload.packetType = "none" -> "JPT_BAD_JSON"
           [] payload.packetType = "error" -> "JPT_ERROR"
           [] payload.packetType = "auth" -> "JPT_AUTH"
           [] payload.packetType = "authPassed" -> "JPT_AUTH_PASSED"
           [] payload.packetType = "authFailed" -> "JPT_AUTH_FAILED"
           [] payload.packetType = "call" -> "JPT_CALL"
           [] payload.packetType = "result" -> "JPT_RESULT"
           [] payload.packetType = "resultSent" -> "JPT_RESULT_SENT"
           [] payload.packetType = "event" -> "JPT_EVENT"
           [] payload.packetType = "eventSent" -> "JPT_EVENT_SENT"
           [] OTHER -> "JPT_UNKNOWN"

\* get_challenge_code as if the client accepted every protocol version
get_challenge_code_any_version(payload) ==
    IF payload.json # "object" THEN HbsRet(-1, Ref("badMsgPayload"))
    ELSE IF payload.packetType = "none"
    THEN HbsRet(-1, Ref("badMsgPayload"))
    ELSE IF payload.packetType = "error"
    THEN HbsRet(-1, Ref("serverRefused"))
    ELSE IF payload.packetType = "auth"
    THEN IF ~payload.ch_code THEN HbsRet(-1, Ref("badMsgPayload"))
         ELSE IF payload.prot_name # HBDBUS_PROTOCOL_NAME
         THEN HbsRet(-1, Ref("wrongVersion"))
         ELSE HbsRet(0, NULL)
    ELSE HbsDied

\* get_challenge_code.  A packet of another type than error and auth leaves
\* ch_code NULL: assert(ch_code) aborts, and where the assertion is compiled
\* out strdup(NULL) ends the process as well.
get_challenge_code(payload) ==
    IF payload.json # "object" THEN HbsRet(-1, Ref("badMsgPayload"))
    ELSE IF payload.packetType = "none"
    THEN HbsRet(-1, Ref("badMsgPayload"))
    ELSE IF payload.packetType = "error"
    THEN HbsRet(-1, Ref("serverRefused"))
    ELSE IF payload.packetType = "auth"
    THEN IF ~payload.ch_code THEN HbsRet(-1, Ref("badMsgPayload"))
         ELSE IF \/ payload.prot_name # HBDBUS_PROTOCOL_NAME
                 \/ payload.prot_ver < HBDBUS_PROTOCOL_VERSION
         THEN HbsRet(-1, Ref("wrongVersion"))
         ELSE HbsRet(0, NULL)
    ELSE HbsDied

\* send_auth_info
send_auth_info(outcome) ==
    CASE outcome = "sign_failed" -> HbsRet(-1, Ref("unexpected"))
      [] outcome = "too_small_buffer" -> HbsRet(-1, Ref("tooSmallBuffer"))
      [] outcome = "failed_write" -> HbsRet(-1, Ref("failedWrite"))
      [] outcome = "sent" -> HbsRet(0, NULL)

\* on_auth_passed
on_auth_passed(payload) ==
    IF payload.hosts THEN HbsRet(0, NULL)
    ELSE HbsRet(-1, Ref("badMsgPayload"))

\* check_auth_result
check_auth_result(payload) ==
    LET jpt == hbdbus_json_packet_to_object(payload)
    IN  CASE jpt = "JPT_BAD_JSON" -> HbsRet(-1, Ref("badMsgPayload"))
          [] jpt = "JPT_AUTH_PASSED" -> on_auth_passed(payload)
          [] jpt = "JPT_AUTH_FAILED" -> HbsRet(-1, Ref("authFailed"))
          [] jpt = "JPT_ERROR" -> HbsRet(-1, Ref("serverRefused"))
          [] OTHER -> HbsRet(-1, Ref("unexpected"))

\* handle_regular_message
handle_regular_message(payload) ==
    LET jpt == hbdbus_json_packet_to_object(payload)
        errsym ==
            CASE jpt = "JPT_BAD_JSON" -> Ref("badMsgPayload")
              [] jpt = "JPT_ERROR" -> Ref("serverError")
              [] jpt \in {"JPT_CALL", "JPT_RESULT", "JPT_EVENT"} ->
                    IF payload.dispatch = "ok" THEN NULL
                    ELSE Ref("badMsgPayload")
              [] jpt \in {"JPT_RESULT_SENT", "JPT_EVENT_SENT"} -> NULL
              [] OTHER -> Ref("unexpected")
    IN  HbsRet(IF errsym # NULL THEN -1 ELSE 0, errsym)

\* the label done of on_message as if an error left the state as it is
on_message_done_keeps_state(state, errsym, step, auth) ==
    [state  |-> state,
     errsym |-> errsym,
     ret    |-> IF errsym # NULL THEN -1 ELSE 0,
     died   |-> FALSE, step |-> step, auth |-> auth]

\* the label done of on_message: an error symbol makes the state uncertain
on_message_done(state, errsym, step, auth) ==
    [state  |-> IF errsym # NULL THEN "BS_UNCERTAIN" ELSE state,
     errsym |-> errsym,
     ret    |-> IF errsym # NULL THEN -1 ELSE 0,
     died   |-> FALSE, step |-> step, auth |-> auth]

\* on_message: [state, errsym, ret, died, step, auth], where step is the
\* function the message was passed to and auth is how send_auth_info ended
\* ("none": it was not called).  ret_is_zero is what `ret == 0` yields on
\* the local ret, which is read without ever having been assigned.
on_message(ext, payload, outcome, ret_is_zero) ==
    LET Died(step) ==
            [state |-> ext.state, errsym |-> NULL, ret |-> 0, died |-> TRUE,
             step |-> step, auth |-> "none"]
    IN  IF payload.type # "MT_TEXT" \/ payload.len = 0
        THEN on_message_done(ext.state, Ref("badMessage"), "none", "none")
        ELSE CASE ext.state = "BS_EXPECT_CHALLENGE" ->
                    LET c == get_challenge_code(payload)
                        a == send_auth_info(outcome)
                    IN  IF c.died THEN Died("get_challenge_code")
                        ELSE IF c.ret # 0
                        THEN on_message_done(ext.state, c.errsym,
                                             "get_challenge_code", "none")
                        ELSE on_message_done(
                                 IF ret_is_zero THEN "BS_EXPECT_AUTH_RESULT"
                                 ELSE ext.state,
                                 a.errsym, "get_challenge_code", outcome)
               [] ext.state = "BS_EXPECT_AUTH_RESULT" ->
                    LET c == check_auth_result(payload)
                    IN  on_message_done(IF c.ret # 0 THEN ext.state
                                        ELSE "BS_EXPECT_REGULAR_MSG",
                                        c.errsym, "check_auth_result", "none")
               [] ext.state = "BS_EXPECT_REGULAR_MSG" ->
                    LET c == handle_regular_message(payload)
                    IN  on_message_done(ext.state, c.errsym,
                                        "handle_regular_message", "none")
               [] ext.state = "BS_UNCERTAIN" ->
                    on_message_done(ext.state, Ref("unexpected"), "none",
                                    "none")

\* dvobjs_extend_stream_by_hbdbus: the extended data of a new stream
dvobjs_extend_stream_by_hbdbus ==
    [state |-> "BS_EXPECT_CHALLENGE", errsym |-> NULL]

HbsStart ==
    /\ hbs_ext = dvobjs_extend_stream_by_hbdbus
    /\ hbs_alive = TRUE
    /\ hbs_sent = 0
    /\ hbs_hist = [challenge |-> FALSE, auth |-> FALSE]
    /\ hbs_op = [n |-> 0, before |-> "none", payload |-> BasePacket,
                 ret |-> 0, step |-> "none", auth |-> "none"]

\* Layer 0 has read a message and calls msg_ops->on_message
HbsOnMessage(payload, outcome, ret_is_zero) ==
    LET r == on_message(hbs_ext, payload, outcome, ret_is_zero)
    IN  /\ hbs_alive
        /\ hbs_op.n < MaxMessages
        /\ hbs_ext' = [state |-> r.state, errsym |-> r.errsym]
        /\ hbs_alive' = ~r.died
        /\ hbs_sent' = IF r.auth = "sent" THEN hbs_sent + 1 ELSE hbs_sent
        /\ hbs_hist' =
              [challenge |-> hbs_hist.challenge \/ r.auth = "sent",
               auth |-> \/ hbs_hist.auth
                        \/ r.step = "check_auth_result" /\ r.ret = 0]
        /\ hbs_op' = [n |-> hbs_op.n + 1, before |-> hbs_ext.state,
                      payload |-> payload, ret |-> r.ret, step |-> r.step,
                      auth |-> r.auth]
        /\ UNCHANGED NotHbs

HbsNext ==
    \E payload \in HbsMessages, outcome \in SendOutcomes,
       ret_is_zero \in BOOLEAN :
        HbsOnMessage(payload, outcome, ret_is_zero)

\* ---- properties of the handshake ----

\* the last message was a packet passed to get_challenge_code
ChallengeStep ==
    /\ hbs_op.step = "get_challenge_code"
    /\ hbs_op.before = "BS_EXPECT_CHALLENGE"
    /\ hbs_op.payload.json = "object"

\* the last message was rejected with the error symbol sym
RejectedWith(sym) ==
    /\ hbs_ext.errsym = Ref(sym)
    /\ hbs_op.ret = -1
    /\ hbs_op.auth = "none"

\* the handshake went on: the client has answered with its auth-info
Proceeded == hbs_alive /\ hbs_op.auth # "none"

\* C32 (as claimed): whenever the packet of the server advertises a protocol
\* version below the minimal version of the client the client rejects it
\* with wrongVersion, and when the minimal version is met the client
\* proceeds with the handshake.
C32_RejectsBelowMinimal ==
    ChallengeStep /\ hbs_op.payload.packetType = "auth" =>
        IF hbs_op.payload.prot_ver < HBDBUS_MINIMAL_PROTOCOL_VERSION
        THEN RejectedWith("wrongVersion")
        ELSE Proceeded

\* C32 (amended): on an auth packet that carries a challenge code the client
\* rejects the server with wrongVersion exactly when the protocol name is not
\* its own or the version is below its minimal version, and otherwise it
\* proceeds with the handshake; an auth packet without a challenge code is
\* rejected with badMsgPayload whatever version it advertises.
C32_RejectsBelowMinimalWithChallenge ==
    ChallengeStep /\ hbs_op.payload.packetType = "auth" =>
        IF ~hbs_op.payload.ch_code
        THEN RejectedWith("badMsgPayload")
        ELSE IF \/ hbs_op.payload.prot_ver < HBDBUS_MINIMAL_PROTOCOL_VERSION
                \/ hbs_op.payload.prot_name # HBDBUS_PROTOCOL_NAME
        THEN RejectedWith("wrongVersion")
        ELSE Proceeded

C32_Witness ==
    /\ ChallengeStep
    /\ hbs_op.payload.packetType = "auth"
    /\ hbs_op.payload.ch_code
    /\ hbs_op.payload.prot_name = HBDBUS_PROTOCOL_NAME
    /\ hbs_op.payload.prot_ver = HBDBUS_MINIMAL_PROTOCOL_VERSION - 1
    /\ RejectedWith("wrongVersion")
    /\ hbs_ext.state = "BS_UNCERTAIN"

\* the last message was a valid challenge: get_challenge_code returned 0
\* and the client went on to send its auth-info
ValidChallenge == ChallengeStep /\ hbs_op.auth # "none"

\* C34 (as claimed): on a valid challenge in the expect-challenge state the
\* stream moves to the expect-auth-result state if and only if the auth-info
\* was sent successfully.
C34_AdvancesIffAuthSent ==
    ValidChallenge =>
        (hbs_ext.state = "BS_EXPECT_AUTH_RESULT" <=> hbs_op.auth = "sent")

BusStates ==
    {"BS_UNCERTAIN", "BS_EXPECT_CHALLENGE", "BS_EXPECT_AUTH_RESULT",
     "BS_EXPECT_REGULAR_MSG"}

\* the moves of the state the handshake allows
BusMoves ==
    {<<"BS_EXPECT_CHALLENGE", "BS_EXPECT_AUTH_RESULT">>,
     <<"BS_EXPECT_AUTH_RESULT", "BS_EXPECT_REGULAR_MSG">>}
    \cup {<<from, "BS_UNCERTAIN">> : from \in BusStates}

C35_State ==
    /\ hbs_op.n = 0 => hbs_ext.state = "BS_EXPECT_CHALLENGE"
    /\ hbs_op.step = "handle_regular_message" =>
          hbs_hist.challenge /\ hbs_hist.auth
    /\ hbs_op.n > 0 /\ (hbs_op.ret = -1 \/ hbs_ext.errsym # NULL) =>
          /\ hbs_ext.state = "BS_UNCERTAIN"
          /\ hbs_op.ret = -1
          /\ hbs_ext.errsym # NULL
    /\ hbs_op.before = "BS_UNCERTAIN" =>
          /\ hbs_op.ret = -1
          /\ hbs_op.step = "none"
          /\ hbs_ext.state = "BS_UNCERTAIN"

C35_Step ==
    hbs_ext'.state # hbs_ext.state =>
        <<hbs_ext.state, hbs_ext'.state>> \in BusMoves

\* C35: the state of the stream starts at expect-challenge and only moves
\* from expect-challenge to expect-auth-result and from there to
\* expect-regular-message, or to uncertain; a regular message is handled
\* only after a challenge step and an auth-result check have succeeded; a
\* message handled with an error makes the state uncertain; and in the
\* uncertain state every message is rejected with an error and the state
\* stays uncertain.
C35_HandshakeStateMachine == []C35_State /\ [][C35_Step]_vars

C35_Witness ==
    /\ hbs_op.n = MaxMessages
    /\ hbs_op.before = "BS_UNCERTAIN"
    /\ hbs_hist.challenge /\ hbs_hist.auth
    /\ hbs_ext.state = "BS_UNCERTAIN"
    /\ hbs_op.ret = -1

(***************************************************************************)
(*                  MESSAGE STREAM: THE PENDING DATA                       *)
(***************************************************************************)

\* the calls of us_write the model lets a stream see
MaxWrites == 4

\* #define SOCK_THROTTLE_THLD (1024 * 1024)
SOCK_THROTTLE_THLD == 1048576

\* the lengths of the buffers passed to us_write
BufLens == {SOCK_THROTTLE_THLD \div 2, SOCK_THROTTLE_THLD}
\* the bytes the socket has room for during one call; 0: it would block
Rooms == {0, SOCK_THROTTLE_THLD \div 2, 4 * SOCK_THROTTLE_THLD}

US_OK == {}
US_ERR == "US_ERR"
US_CLOSE == "US_CLOSE"
US_SENDING == "US_SENDING"
US_THROTTLING == "US_THROTTLING"

\* The bytes [from, to) of the buffer passed to the buf-th call of us_write.
\* from is -1 where the data starts one byte before the buffer.
Segment(buf, from, to) == [buf |-> buf, from |-> from, to |-> to]

\* a sequence of segments with one more, the adjoining bytes of a buffer
\* joined into one segment
AppendSegment(segs, seg) ==
    IF seg.from = seg.to THEN segs
    ELSE IF /\ segs # <<>>
            /\ segs[Len(segs)].buf = seg.buf
            /\ segs[Len(segs)].to = seg.from
    THEN [segs EXCEPT ![Len(segs)].to = seg.to]
    ELSE Append(segs, seg)

\* write(fd4w, ..., n) on a socket with room for `room` bytes; broken: the
\* peer has closed it
write(room, broken, n) ==
    IF broken THEN [bytes |-> -1, errno |-> "EPIPE"]
    ELSE IF room = 0 THEN [bytes |-> -1, errno |-> "EAGAIN"]
    ELSE [bytes |-> Min(n, room), errno |-> ""]

\* dvobjs_extend_stream_by_message: calloc and list_head_init
stream_extended_data ==
    [status |-> US_OK, sz_pending |-> 0, pending |-> <<>>]

\* us_clear_pending_data
us_clear_pending_data(ext) ==
    [ext EXCEPT !.pending = <<>>, !.sz_pending = 0]

\* us_queue_data(stream, buf, len), the data starting at the offset `from`
\* of the buffer `buf`: [ok, ext]; nomem: malloc returns NULL
us_queue_data(ext, buf, from, len, nomem) ==
    IF nomem
    THEN [ok |-> FALSE,
          ext |-> [us_clear_pending_data(ext) EXCEPT
                       !.status = {US_ERR, US_CLOSE}]]
    ELSE LET queued ==
                 [ext EXCEPT
                     !.pending = Append(@, [buf |-> buf, from |-> from,
                                            szdata |-> len, szsent |-> 0]),
                     !.sz_pending = @ + len,
                     !.status = @ \cup {US_SENDING}]
         IN  [ok |-> TRUE,
              ext |-> IF queued.sz_pending >= SOCK_THROTTLE_THLD
                      THEN [queued EXCEPT !.status = @ \cup {US_THROTTLING}]
                      ELSE queued]

\* us_write_data: [bytes, ext, wire].  After EAGAIN bytes is -1, so the data
\* queued is buffer + bytes = buffer - 1 of the length len - bytes = len + 1.
\* msg_ops->on_pending is NULL and is not called.
us_write_data(ext, wire, buf, len, room, broken, nomem) ==
    LET w == write(room, broken, len)
    IN  IF w.bytes = -1 /\ w.errno = "EPIPE"
        THEN [bytes |-> -1, ext |-> [ext EXCEPT !.status = {US_ERR, US_CLOSE}],
              wire |-> wire]
        ELSE IF \/ w.bytes > 0 /\ w.bytes < len
                \/ w.bytes = -1 /\ w.errno = "EAGAIN"
        THEN [bytes |-> w.bytes,
              ext |-> us_queue_data(ext, buf, w.bytes, len - w.bytes,
                                    nomem).ext,
              wire |-> IF w.bytes > 0
                       THEN AppendSegment(wire, Segment(buf, 0, w.bytes))
                       ELSE wire]
        ELSE [bytes |-> w.bytes, ext |-> ext,
              wire |-> AppendSegment(wire, Segment(buf, 0, w.bytes))]

\* us_write_pending: [bytes, ext, wire]; total is total_bytes, and room is
\* what the socket still has room for
RECURSIVE us_write_pending_from(_, _, _, _, _)
us_write_pending_from(ext, wire, room, broken, total) ==
    IF ext.pending = <<>>
    THEN [bytes |-> total, ext |-> ext, wire |-> wire]
    ELSE LET pending == Head(ext.pending)
             w == write(room, broken, pending.szdata - pending.szsent)
             at == pending.from + pending.szsent
             sent == AppendSegment(wire,
                         Segment(pending.buf, at, at + w.bytes))
         IN  IF w.bytes > 0
             THEN IF pending.szsent + w.bytes >= pending.szdata
                  THEN us_write_pending_from(
                           [ext EXCEPT !.pending = Tail(@),
                                       !.sz_pending = @ - w.bytes],
                           sent, room - w.bytes, broken, total + w.bytes)
                  ELSE \* break, before total_bytes and sz_pending are set
                       [bytes |-> total,
                        ext |-> [ext EXCEPT !.pending[1].szsent =
                                                @ + w.bytes],
                        wire |-> sent]
             ELSE IF w.errno = "EPIPE"
             THEN [bytes |-> -1,
                   ext |-> [ext EXCEPT !.status = {US_ERR, US_CLOSE}],
                   wire |-> wire]
             ELSE [bytes |-> -1, ext |-> ext, wire |-> wire]

us_write_pending(ext, wire, room, broken) ==
    us_write_pending_from(ext, wire, room, broken, 0)

\* us_write(stream, buffer, len) for the buffer `buf`: [bytes, ext, wire]
us_write(ext, wire, buf, len, room, broken, nomem) ==
    IF ext.pending = <<>>
    THEN us_write_data(ext, wire, buf, len, room, broken, nomem)
    ELSE IF ext.sz_pending < SOCK_THROTTLE_THLD
    THEN [bytes |-> 0, ext |-> us_queue_data(ext, buf, 0, len, nomem).ext,
          wire |-> wire]
    ELSE us_write_pending(ext, wire, room, broken)

UsStart ==
    /\ us_ext = stream_extended_data
    /\ us_wire = <<>>
    /\ us_bufs = <<>>
    /\ us_alive = TRUE
    /\ us_op = [name |-> "extend", bytes |-> 0, was |-> stream_extended_data]

\* a caller passes a new buffer of len bytes to us_write
UsWrite(len, room, broken, nomem) ==
    LET r == us_write(us_ext, us_wire, Len(us_bufs) + 1, len, room, broken,
                      nomem)
    IN  /\ us_alive
        /\ Len(us_bufs) < MaxWrites
        /\ us_bufs' = Append(us_bufs, len)
        /\ us_ext' = r.ext
        /\ us_wire' = r.wire
        /\ us_op' = [name |-> "us_write", bytes |-> r.bytes, was |-> us_ext]
        /\ UNCHANGED us_alive
        /\ UNCHANGED NotUs

\* on_release: the pending data is cleared and the extended data freed
UsRelease ==
    /\ us_alive
    /\ us_ext' = us_clear_pending_data(us_ext)
    /\ us_alive' = FALSE
    /\ us_op' = [name |-> "on_release", bytes |-> 0, was |-> us_ext]
    /\ UNCHANGED <<us_wire, us_bufs>>
    /\ UNCHANGED NotUs

UsNext ==
    \/ \E len \in BufLens, room \in Rooms, broken \in BOOLEAN,
          nomem \in BOOLEAN : UsWrite(len, room, broken, nomem)
    \/ UsRelease

\* ---- properties of the message stream ----

\* the stream is in the error or closed state
UsFailed == us_ext.status \cap {US_ERR, US_CLOSE} # {}

\* the bytes of the pending queue that are still to be sent, in queue order
RECURSIVE UnsentAfter(_, _)
UnsentAfter(segs, pending) ==
    IF pending = <<>> THEN segs
    ELSE LET p == Head(pending)
         IN  UnsentAfter(
                 AppendSegment(segs, Segment(p.buf, p.from + p.szsent,
                                             p.from + p.szdata)),
                 Tail(pending))

\* the bytes of the buffers passed to us_write, in submission order
RECURSIVE Submitted(_)
Submitted(n) ==
    IF n = 0 THEN <<>>
    ELSE AppendSegment(Submitted(n - 1), Segment(n, 0, us_bufs[n]))

\* C38 (as claimed): on a stream that is not in the error or closed state
\* the bytes written to the socket followed by the unsent bytes of the
\* pending queue are the bytes passed to us_write, each once and in
\* submission order.
C38_WrittenOnceInOrder ==
    us_alive /\ ~UsFailed =>
        UnsentAfter(us_wire, us_ext.pending) = Submitted(Len(us_bufs))

RECURSIVE UnsentBytes(_)
UnsentBytes(pending) ==
    IF pending = <<>> THEN 0
    ELSE Head(pending).szdata - Head(pending).szsent
             + UnsentBytes(Tail(pending))

\* C39 (as claimed): sz_pending is the number of unsent bytes of the pending
\* queue, and it is zero exactly when the queue is empty.
C39_SzPendingIsUnsent ==
    /\ us_ext.sz_pending = UnsentBytes(us_ext.pending)
    /\ us_ext.sz_pending = 0 <=> us_ext.pending = <<>>

C40_State ==
    us_alive /\ ~UsFailed =>
        /\ us_ext.sz_pending >= SOCK_THROTTLE_THLD =>
              US_THROTTLING \in us_ext.status
        /\ us_ext.pending = <<>> =>
              us_ext.status \cap {US_SENDING, US_THROTTLING} = {}

C40_Step ==
    US_THROTTLING \in us_ext.status =>
        Len(us_ext'.pending) <= Len(us_ext.pending)

\* C40 (as claimed): the stream is throttling once its pending bytes reach
\* the threshold, no data is queued while it is throttling, and when
\* everything pending has been sent it is neither sending nor throttling.
C40_ThrottlesAndResumes == []C40_State /\ [][C40_Step]_vars

(***************************************************************************)
(*                          SPECIFICATIONS                                 *)
(***************************************************************************)

\* a component at rest: it has not been started and none of its actions is
\* enabled
RdrIdle ==
    /\ conn_type = "CT_SOCKET" /\ doc_content = <<>> /\ rdr_pc = "idle"
    /\ len_wrotten = 0 /\ requests = <<>> /\ response = "none"

IterIdle ==
    /\ element = [on |-> NULL, by |-> NULL, onlyif |-> NULL, children |-> <<>>]
    /\ ndebug = FALSE
    /\ frame = [idx |-> 0, result_var |-> NULL]
    /\ ctxt = [curr |-> NULL, on |-> NULL, onlyif |-> NULL, rule_attr |-> NULL,
               exec_inst |-> NULL, it |-> NULL]
    /\ iter_pc = "idle"
    /\ calls = [rerun |-> 0, popping_true |-> 0, popping_false |-> 0]
    /\ body_runs = <<>>

ArrayIdle ==
    /\ array = <<>> /\ listeners = <<>> /\ invoked = <<>>
    /\ held = [v \in AllValues |-> 0]
    /\ array_op = [name |-> "idle", idx |-> 0, kind |-> "none",
                   ret |-> TRUE]

TimersIdle ==
    /\ timers_var = [id \in TimerIds |-> NULL]
    /\ timers_map = [id \in TimerIds |-> NULL]
    /\ timer_objs = [a \in Addrs |-> NULL]
    /\ timers_op = [op |-> "idle", id |-> "", was_active |-> FALSE,
                    started |-> FALSE, stopped |-> FALSE, ret |-> TRUE]
    /\ timers_listeners = {} /\ msg_queue = <<>>

ClientIdle ==
    /\ inst = [conn_to_rdr |-> NULL, rdr_caps |-> NULL]
    /\ co = [target_page_type |-> "PCRDR_PAGE_TYPE_NULL",
             target_workspace_handle |-> 0, target_page_handle |-> 0,
             target_dom_handle |-> 0]
    /\ traffic = [sent |-> NULL, nsent |-> 0, nrecv |-> 0]
    /\ waiting = NULL
    /\ last_error = "PURC_ERROR_OK"
    /\ client_op = [name |-> "idle", ret |-> "", response |-> NULL]

UpdIdle ==
    /\ upd_element = [attrs |-> <<>>, children |-> <<>>]
    /\ upd_build = "assert"
    /\ upd_ctxt = NULL
    /\ upd_pc = "idle"
    /\ upd_error = "PURC_ERROR_OK"
    /\ upd_src = NULL

UptIdle ==
    /\ upt_target = [kind |-> "idle", obj |-> NoObject, arr |-> <<>>,
                     set |-> {}, attrs |-> NoAttrs]
    /\ upt_build = "assert"
    /\ upt_sig = ""
    /\ upt_op = [n |-> MaxApplies, to |-> NULL, at |-> NULL, src |-> 0,
                 op |-> PCHVML_ATTRIBUTE_OPERATOR, r |-> 0, err |-> NULL]

TplIdle ==
    /\ tpl_element = [tag |-> "idle", name |-> NULL, src |-> NULL,
                      type |-> NULL, under_head |-> FALSE, children |-> <<>>]
    /\ tpl_build = "assert"
    /\ tpl_ctxt = NULL
    /\ tpl_frame = TplFrame0
    /\ tpl_scope = {}
    /\ tpl_error = "PURC_ERROR_OK"
    /\ tpl_pc = "idle"
    /\ tpl_abort = ""

PdocIdle ==
    /\ pdoc_ops = {}
    /\ pdoc_doc = NULL
    /\ pdoc_error = "PURC_ERROR_OK"
    /\ pdoc_call = [n |-> MaxDocCalls,
                    did |-> DocCall("idle", FALSE, "", NULL)]

HbsIdle ==
    /\ hbs_ext = [state |-> "BS_UNCERTAIN", errsym |-> NULL]
    /\ hbs_alive = FALSE
    /\ hbs_sent = 0
    /\ hbs_hist = [challenge |-> FALSE, auth |-> FALSE]
    /\ hbs_op = [n |-> MaxMessages, before |-> "none",
                 payload |-> BasePacket,
                 ret |-> 0, step |-> "none", auth |-> "none"]

UsIdle ==
    /\ us_ext = stream_extended_data
    /\ us_wire = <<>>
    /\ us_bufs = <<>>
    /\ us_alive = FALSE
    /\ us_op = [name |-> "idle", bytes |-> 0, was |-> stream_extended_data]

RdrInit ==
    RdrStart /\ IterIdle /\ ArrayIdle /\ TimersIdle /\ ClientIdle /\ UpdIdle
        /\ UptIdle /\ TplIdle
        /\ PdocIdle
        /\ HbsIdle
        /\ UsIdle
SpecRdr == RdrInit /\ [][RdrNext]_vars

IterInit ==
    IterStart /\ RdrIdle /\ ArrayIdle /\ TimersIdle /\ ClientIdle /\ UpdIdle
        /\ UptIdle /\ TplIdle
        /\ PdocIdle
        /\ HbsIdle
        /\ UsIdle
SpecIterate == IterInit /\ [][IterNext]_vars

ArrayInit ==
    ArrayStart /\ RdrIdle /\ IterIdle /\ TimersIdle /\ ClientIdle /\ UpdIdle
        /\ UptIdle /\ TplIdle
        /\ PdocIdle
        /\ HbsIdle
        /\ UsIdle
SpecArray == ArrayInit /\ [][ArrayNext]_vars

\* an array nobody listens to: the mutations alone, as on a fresh array
ArrayOpsNext ==
    \/ \E value \in Values : ArrayAppend(value) \/ ArrayPrepend(value)
    \/ \E idx \in 0..MaxArray, value \in Values :
          \/ ArraySet(idx, value)
          \/ ArrayInsertBefore(idx, value)
          \/ ArrayInsertAfter(idx, value)
    \/ \E idx \in 0..MaxArray : ArrayRemove(idx)
SpecArrayOps == ArrayInit /\ [][ArrayOpsNext]_vars

TimersInit ==
    TimersStart /\ RdrIdle /\ IterIdle /\ ArrayIdle /\ ClientIdle /\ UpdIdle
        /\ UptIdle /\ TplIdle
        /\ PdocIdle
        /\ HbsIdle
        /\ UsIdle
SpecTimers == TimersInit /\ [][TimersNext]_vars

\* the run loop lets every running timer expire again and again, and the
\* coroutine goes on handling the messages it has pending
SpecTimersLive ==
    /\ SpecTimers
    /\ \A a \in Addrs : SF_vars(TimerFired(a))
    /\ WF_vars(HandleMessage)

ClientInit ==
    ClientStart /\ RdrIdle /\ IterIdle /\ ArrayIdle /\ TimersIdle /\ UpdIdle
        /\ UptIdle /\ TplIdle
        /\ PdocIdle
        /\ HbsIdle
        /\ UsIdle
SpecClient == ClientInit /\ [][ClientNext]_vars

UpdInit ==
    UpdStart /\ RdrIdle /\ IterIdle /\ ArrayIdle /\ TimersIdle /\ ClientIdle
        /\ UptIdle /\ TplIdle
        /\ PdocIdle
        /\ HbsIdle
        /\ UsIdle
SpecUpdate == UpdInit /\ [][UpdNext]_vars

UptInit ==
    UptStart /\ RdrIdle /\ IterIdle /\ ArrayIdle /\ TimersIdle /\ ClientIdle
        /\ UpdIdle /\ TplIdle
        /\ PdocIdle
        /\ HbsIdle
        /\ UsIdle
SpecUpdateTarget == UptInit /\ [][UptNext]_vars

TplInit ==
    TplStart /\ RdrIdle /\ IterIdle /\ ArrayIdle /\ TimersIdle /\ ClientIdle
        /\ UpdIdle /\ UptIdle
        /\ PdocIdle
        /\ HbsIdle
        /\ UsIdle
SpecTemplates == TplInit /\ [][TplNext]_vars

PdocInit ==
    PdocStart /\ RdrIdle /\ IterIdle /\ ArrayIdle /\ TimersIdle /\ ClientIdle
        /\ UpdIdle /\ UptIdle /\ TplIdle
        /\ HbsIdle
        /\ UsIdle
SpecDocument == PdocInit /\ [][PdocNext]_vars

HbsInit ==
    HbsStart /\ RdrIdle /\ IterIdle /\ ArrayIdle /\ TimersIdle /\ ClientIdle
        /\ UpdIdle /\ UptIdle /\ TplIdle /\ PdocIdle
        /\ UsIdle
SpecHbdbus == HbsInit /\ [][HbsNext]_vars

UsInit ==
    UsStart /\ RdrIdle /\ IterIdle /\ ArrayIdle /\ TimersIdle /\ ClientIdle
        /\ UpdIdle /\ UptIdle /\ TplIdle /\ PdocIdle /\ HbsIdle
SpecMessage == UsInit /\ [][UsNext]_vars

=============================================================================
